---- MODULE Spec2Model ----
(***************************************************************************)
(* A model of solana-rpc-tower: the sender adapter (RpcClientSender::send) *)
(* dispatching concurrent calls into a tower pipeline, and the crate's     *)
(* middleware (early return, response cache, 429 retry).                   *)
(*                                                                         *)
(* Every invocation of send is one element of Calls.  Time is counted in   *)
(* ticks; Instants are kept as distances from "now" (an age that grows, a  *)
(* deadline that shrinks), so Tick is the only action that moves them.     *)
(***************************************************************************)
EXTENDS Integers, Sequences, FiniteSets, TLC

\* ------------------------------------------------------------------ bounds
MaxCalls == 2        \* invocations of send that can be in progress at once
MaxCacheAge == 2     \* max_cache_age of the cache layer, in ticks
RatePer == 2         \* period of the rate limiter, in ticks
RateNum == 1         \* requests the rate limiter admits per period
NumRetries == 1      \* budget the 429 retry policy of the HTTP stack is created with
IdBits == 1          \* width of the request id counter (64 in the program)

Calls == 1..MaxCalls
None == "None"

\* ------------------------------------------------------------------ requests
Methods == {"GetBalance", "GetVersion", "GetSlot"}
Params == {"p1", "p2"}
Request(m, p) == [method |-> m, params |-> p]
NoRequest == [method |-> None, params |-> None]

\* A BoxError: a boxed ClientError, or an error of any other type.
\* (code, data: the JSON-RPC code and the RpcResponseErrorData of an
\* RpcError::RpcResponseError; 0 and None for the others.)
NoError == [kind |-> None, code |-> 0, text |-> None, request |-> None, data |-> None]
ClientError(text, req) ==
    [kind |-> "ClientError", code |-> 0, text |-> text, request |-> req, data |-> None]
OtherError(text) ==
    [kind |-> "Other", code |-> 0, text |-> text, request |-> None, data |-> None]

\* Result<Value, BoxError>; NoResult stands for "no result yet".
Ok(v) == [ok |-> TRUE, val |-> v, err |-> NoError]
Err(e) == [ok |-> FALSE, val |-> -1, err |-> e]
NoResult == [ok |-> FALSE, val |-> -1, err |-> NoError]

VARIABLES
    pc,             \* position of each invocation of send
    request,        \* its (RpcRequest, Value) argument
    lock,           \* holder of the write lock on RpcClientSender::service (0: free)
    readyRes,       \* what service.ready().await resolved to for this call
    fut,            \* the future service.call returned to this call
    resp,           \* what send returned to its caller
    limiter,        \* the rate limiter: Ready{until, rem} or Limited (sleep until)
    cached_values,  \* ResponseCacheService::cached_values
    layers,         \* the layers the ServiceBuilder stacked on the terminal service
    forwarded,      \* per call: how often the terminal service's call ran for it
    sinceCall,      \* ticks since the rate limiter last admitted a call (-1: never)
    lastGap,        \* sinceCall as it was when the latest call was admitted
    keyHist,        \* per parameter value, what callers saw of the target method
    issuedNow,      \* calls in flight that were forwarded within the current tick
    policy,         \* the TooManyRequestsRetry held by the Retry service
    http,           \* per call: the retry ResponseFuture of its HTTP request
    request_id,     \* HttpRequestBuilderService::request_id
    stats,          \* RpcClientSender::stats, the shared TransportStats
    input,          \* argument of a function that is applied on its own
    output,         \* what that function returned
    wire            \* what an observer notes (<<>> where nobody observes): of
                    \* the connection, the requests in flight; of the cache,
                    \* per key, whether the forward that stored the entry had
                    \* been dispatched in an earlier tick than it returned

vars == <<pc, request, lock, readyRes, fut, resp, limiter, cached_values,
          layers, forwarded, sinceCall, lastGap, keyHist, issuedNow,
          policy, http, request_id, stats, input, output, wire>>
mockVars == <<limiter, cached_values, forwarded, sinceCall, lastGap, keyHist, issuedNow>>
httpVars == <<policy, http, request_id>>
pureVars == <<input, output, wire>>

\* ------------------------------------------------------------------ time
\* Saturating counters: an age beyond the cap behaves like the cap.
AgeCap == IF MaxCacheAge > RatePer THEN MaxCacheAge ELSE RatePer
Older(a) == IF a < 0 THEN a ELSE IF a < AgeCap THEN a + 1 ELSE a
Sooner(d) == IF d > 0 THEN d - 1 ELSE 0

\* ------------------------------------------------------------------ history
\* What callers observed for the target method and one parameter value:
\*   stored: ticks since a forwarded call with it last returned a success,
\*   value:  the value that call returned.
NoHist == [stored |-> -1, value |-> -1]

\* ------------------------------------------------------------------ futures
NoFut == [kind |-> "none", result |-> NoResult, key |-> None]
ReadyFut(r) == [kind |-> "ready", result |-> r, key |-> None]
InnerFut == [kind |-> "inner", result |-> NoResult, key |-> None]
CachedResponseFuture(req) == [kind |-> "cached", result |-> NoResult, key |-> req.params]
HttpFut == [kind |-> "http", result |-> NoResult, key |-> None]

\* A pipeline stage's call: the future it returns, how many times the
\* terminal service was invoked on the way, and whether the call of a rate
\* limiter ran on the way.
Dispatch(f, n) == [fut |-> f, calls |-> n, limited |-> FALSE]

\* ------------------------------------------------------------------ terminal service
\* The service at the bottom of the stack (service_fn(f) in the with_fn path).
TerminalCall(req) == Dispatch(InnerFut, 1)

\* What the terminal future can resolve to: some value, or an error.
TerminalValues == {50, 60}
TerminalResults(req) ==
    {Ok(v) : v \in TerminalValues}
        \cup {Err(ClientError("RPC Method not allowed", None)), Err(OtherError("bar"))}

\* poll_ready of the terminal service: ready, or failed.
TerminalPollReady == {"ok", "err"}

\* ------------------------------------------------------------------ response cache
RequestType == "GetBalance"
NoEntry == [response |-> -1, at |-> -1]
CacheEntry(v) == [response |-> v, at |-> 0]

\* (mutant) a cache that still serves an entry whose age equals the TTL
CacheFreshInclusive(cv, key) == cv[key] # NoEntry /\ cv[key].at <= layers.max_cache_age

\* entry.at.elapsed() < self.max_cache_age
CacheFresh(cv, key) == cv[key] # NoEntry /\ cv[key].at < layers.max_cache_age

\* The age of an entry one tick later; an age that has reached the TTL behaves
\* like the TTL.
OlderEntry(a) == IF a < 0 \/ a >= layers.max_cache_age THEN a ELSE a + 1

\* (mutant) a cache that does not compare the method with its request_type
ResponseCacheCallAnyMethod(req, cv, inner) ==
    IF CacheFresh(cv, req.params)
    THEN Dispatch(ReadyFut(Ok(cv[req.params].response)), 0)
    ELSE [inner EXCEPT !.fut = CachedResponseFuture(req)]

\* (mutant) a cache that serves an entry of any age
ResponseCacheCallStale(req, cv, inner) ==
    IF req.method = RequestType
    THEN IF cv[req.params] # NoEntry
         THEN Dispatch(ReadyFut(Ok(cv[req.params].response)), 0)
         ELSE [inner EXCEPT !.fut = CachedResponseFuture(req)]
    ELSE inner

\* (mutant) a cache that stores the responses to every method it forwards
ResponseCacheCallStoreAll(req, cv, inner) ==
    IF req.method = RequestType /\ CacheFresh(cv, req.params)
    THEN Dispatch(ReadyFut(Ok(cv[req.params].response)), 0)
    ELSE [inner EXCEPT !.fut = CachedResponseFuture(req)]

\* ResponseCacheService::call; inner is what self.inner.call(req) does.
ResponseCacheCall(req, cv, inner) ==
    IF req.method = RequestType
    THEN IF CacheFresh(cv, req.params)
         THEN Dispatch(ReadyFut(Ok(cv[req.params].response)), 0)
         ELSE [inner EXCEPT !.fut = CachedResponseFuture(req)]
    ELSE inner

\* (mutant) a cache future that returns the response without storing it
CachedResponseFuturePollNoStore(f, r, cv) == cv

\* (mutant) a cache future that stores whatever the inner future yields
CachedResponseFuturePollAlways(f, r, cv) ==
    IF f.kind = "cached"
    THEN [cv EXCEPT ![f.key] = CacheEntry(r.val)]
    ELSE cv

\* (mutant) a cache future that keeps only the entry it stores
CachedResponseFuturePollOnly(f, r, cv) ==
    IF f.kind = "cached" /\ r.ok
    THEN [p \in DOMAIN cv |-> IF p = f.key THEN CacheEntry(r.val) ELSE NoEntry]
    ELSE cv

\* (mutant) a cache future that leaves an entry alone while it is fresh
CachedResponseFuturePollKeepFresh(f, r, cv) ==
    IF f.kind = "cached" /\ r.ok /\ ~CacheFresh(cv, f.key)
    THEN [cv EXCEPT ![f.key] = CacheEntry(r.val)]
    ELSE cv

\* (mutant) a cache future that stamps the entry with the time of the dispatch
CachedResponseFuturePollAtDispatch(f, r, cv) ==
    IF f.kind = "cached" /\ r.ok
    THEN [cv EXCEPT ![f.key] =
            [response |-> r.val,
             at |-> IF \E c \in issuedNow : fut[c] = f THEN 0 ELSE 1]]
    ELSE cv

\* CachedResponseFuture::poll once the inner future is ready with r.
CachedResponseFuturePoll(f, r, cv) ==
    IF f.kind = "cached" /\ r.ok
    THEN [cv EXCEPT ![f.key] = CacheEntry(r.val)]
    ELSE cv

\* ------------------------------------------------------------------ early return
EarlyValue == 123456789
\* The predicate f(method, params): Some(result), or NoResult for Option::None.
EarlyReturnF(req) ==
    IF req.method = "GetVersion"
    THEN IF req.params = "p1"
         THEN Ok(EarlyValue)
         ELSE Err(ClientError("rejected by the predicate", None))
    ELSE NoResult

\* (mutant) an interceptor that calls the inner service before it looks at f
MaybeEarlyReturnCallThrough(req, inner) ==
    IF EarlyReturnF(req) = NoResult
    THEN inner
    ELSE [inner EXCEPT !.fut = ReadyFut(EarlyReturnF(req))]

\* MaybeEarlyReturn::call; inner is what self.inner.call(req) does.
MaybeEarlyReturnCall(req, inner) ==
    IF EarlyReturnF(req) = NoResult
    THEN inner
    ELSE Dispatch(ReadyFut(EarlyReturnF(req)), 0)

\* ------------------------------------------------------------------ rate limiter
LimiterReady(until, rem) == [state |-> "Ready", until |-> until, rem |-> rem]
LimiterLimited(until) == [state |-> "Limited", until |-> until, rem |-> 0]

\* (mutant) a limiter whose poll_ready never waits for the period to elapse
RateLimitPendingNever(lim) == FALSE

\* RateLimit::poll_ready is pending while Limited and the sleep has not elapsed.
RateLimitPending(lim) == lim.state = "Limited" /\ lim.until > 0

RateLimitPollReady(lim) ==
    IF lim.state = "Limited" THEN LimiterReady(RatePer, RateNum) ELSE lim

\* RateLimit::call in state Ready (in state Limited it panics).
RateLimitCall(lim) ==
    LET until == IF lim.until = 0 THEN RatePer ELSE lim.until
        rem == IF lim.until = 0 THEN RateNum ELSE lim.rem
    IN  IF rem > 1 THEN LimiterReady(until, rem - 1) ELSE LimiterLimited(until)

\* ------------------------------------------------------------------ pipeline
\* The stages of the HTTP service from the outside in: the response parser,
\* the request builder, the 429 retry when there is one, the reqwest client.
HttpStages(retrying) ==
    <<"ParseResponseBody", "HttpRequestBuilder">>
        \o (IF retrying THEN <<"Retry">> ELSE <<>>)
        \o <<"reqwest">>

\* (mutant) a builder that puts the layer added last outermost
StackOfInnermostFirst(added, terminal) ==
    [i \in 1..Len(added) |-> added[Len(added) + 1 - i]] \o terminal

\* The stack a ServiceBuilder assembles, from the outside in: the layers in the
\* order they were added, then the terminal service.
StackOf(added, terminal) == added \o terminal

Has(stack, stage) == \E i \in 1..Len(stack) : stack[i] = stage

\* The stacks of the tests, layers added in the order
\*   rate_limit -> MaybeEarlyReturnLayer -> ResponseCacheLayer -> terminal
Layers(rate, early, cache, overHttp) ==
    [rate_limit |-> rate, early_return |-> early, cache |-> cache, http |-> overHttp,
     max_cache_age |-> MaxCacheAge,
     stack |-> StackOf((IF rate THEN <<"rate_limit">> ELSE <<>>)
                          \o (IF early THEN <<"early_return">> ELSE <<>>)
                          \o (IF cache THEN <<"cache">> ELSE <<>>),
                       IF overHttp THEN HttpStages(TRUE) ELSE <<"service_fn">>)]

\* (mutant) a stack whose outermost layer answers poll_ready by itself
PipelinePendingOutermost(ls, lim) == ls.stack[1] = "rate_limit" /\ RateLimitPending(lim)

\* poll_ready of the stack: every layer of this crate passes its inner's answer on.
PipelinePending(ls, lim) == ls.rate_limit /\ RateLimitPending(lim)

\* call of the stack from stage i inwards: a layer's service gets the call
\* of the stage below it as its inner service; RateLimit::call passes the
\* request on after counting it; the HTTP service returns its future.
RECURSIVE StackCall(_, _, _, _)
StackCall(req, cv, stack, i) ==
    IF stack[i] = "service_fn" THEN TerminalCall(req)
    ELSE IF stack[i] = "ParseResponseBody" THEN Dispatch(HttpFut, 1)
    ELSE LET inner == StackCall(req, cv, stack, i + 1)
         IN  IF stack[i] = "cache" THEN ResponseCacheCall(req, cv, inner)
             ELSE IF stack[i] = "early_return" THEN MaybeEarlyReturnCall(req, inner)
             ELSE [inner EXCEPT !.limited = TRUE]

PipelineCall(req, cv, ls) == StackCall(req, cv, ls.stack, 1)

\* The requests callers send through a stack: a method no layer treats specially
\* and, for each layer that singles requests out, the requests it singles out
\* (the cache's target method with each parameter value, the methods the
\* early-return predicate answers).
PollReadyResults(ls) == IF ls.http THEN {"ok"} ELSE TerminalPollReady

Workload(ls) ==
    {Request("GetSlot", "p1")}
        \cup (IF ls.cache THEN {Request(RequestType, p) : p \in Params} ELSE {})
        \cup (IF ls.early_return THEN {Request("GetVersion", p) : p \in Params} ELSE {})

\* ------------------------------------------------------------------ HTTP stack
\* default_http_service: ParseResponseBody over HttpRequestBuilderService over
\* Retry<TooManyRequestsRetry> over the reqwest client.
DefaultBackoffMs == 500
RetryAfterCeiling == 120
MsPerSec == 1000
TooManyRequests == 429

\* One tick of the model is the default backoff.
Ticks(ms) == ms \div DefaultBackoffMs

\* A Retry-After header: absent, bytes that to_str rejects, or visible text
\* (a sequence of characters).
NoHeader == [present |-> FALSE, ascii |-> FALSE, text |-> <<>>]
OpaqueHeader == [present |-> TRUE, ascii |-> FALSE, text |-> <<>>]
Header(text) == [present |-> TRUE, ascii |-> TRUE, text |-> text]

DigitChars == <<"0", "1", "2", "3", "4", "5", "6", "7", "8", "9">>
IsDigit(ch) == \E i \in 1..Len(DigitChars) : DigitChars[i] = ch
DigitVal(ch) == (CHOOSE i \in 1..Len(DigitChars) : DigitChars[i] = ch) - 1
RECURSIVE DigitsVal(_)
DigitsVal(s) ==
    IF s = <<>> THEN 0
    ELSE Len(DigitChars) * DigitsVal(SubSeq(s, 1, Len(s) - 1)) + DigitVal(s[Len(s)])

\* str::parse::<u64>: an optional "+" and at least one digit; -1 stands for Err.
\* (Texts here are short, so the value always fits 64 bits.)
ParseU64(s) ==
    LET d == IF s # <<>> /\ s[1] = "+" THEN Tail(s) ELSE s
    IN  IF d = <<>> \/ \E i \in 1..Len(d) : ~IsDigit(d[i])
        THEN -1
        ELSE DigitsVal(d)

\* A response body as Response::json reads it: not JSON at all, or a JSON
\* value: an object, null, or a value of another shape (an array here).  Of an
\* object:
\*   error:       its "error" field is an object,
\*   error_other: its "error" field is there but is no object (a string, say),
\*   has_code, code, message: the fields of the error object (has_code FALSE,
\*                message None: the field is missing),
\*   data:        the "data" field of the error object: None (missing), or
\*                a value that decodes as RpcSimulateTransactionResult
\*                ("simulation"), as NodeUnhealthyErrorData ("slots_behind"),
\*                as either ("both") or as neither ("other"),
\*   has_result, result: its "result" field.
JsonNull == 0
MethodNotFound == -32601
NodeUnhealthy == -32005
PreflightFailure == -32002
JsonObject ==
    [json |-> TRUE, shape |-> "object", error |-> FALSE, error_other |-> FALSE,
     has_code |-> FALSE, code |-> 0, message |-> None, data |-> None,
     has_result |-> FALSE, result |-> JsonNull]
NotJson == [JsonObject EXCEPT !.json = FALSE, !.shape = None]
JsonNullBody == [JsonObject EXCEPT !.shape = "null"]
JsonArray == [JsonObject EXCEPT !.shape = "array"]
JsonResult(v) == [JsonObject EXCEPT !.has_result = TRUE, !.result = v]
JsonError(code, msg) ==
    [JsonObject EXCEPT !.error = TRUE, !.has_code = TRUE, !.code = code, !.message = msg]

\* The "error" fields and the "result" fields an object can have.
ErrorFields ==
    {[error |-> FALSE, error_other |-> FALSE, has_code |-> FALSE, code |-> 0,
      message |-> None, data |-> None],
     [error |-> FALSE, error_other |-> TRUE, has_code |-> FALSE, code |-> 0,
      message |-> None, data |-> None],
     [error |-> TRUE, error_other |-> FALSE, has_code |-> TRUE, code |-> MethodNotFound,
      message |-> "Method not found", data |-> None],
     [error |-> TRUE, error_other |-> FALSE, has_code |-> TRUE, code |-> NodeUnhealthy,
      message |-> "Node is unhealthy", data |-> None],
     [error |-> TRUE, error_other |-> FALSE, has_code |-> FALSE, code |-> 0,
      message |-> "Method not found", data |-> None],
     [error |-> TRUE, error_other |-> FALSE, has_code |-> TRUE, code |-> MethodNotFound,
      message |-> None, data |-> None]}
        \cup {[error |-> TRUE, error_other |-> FALSE, has_code |-> TRUE, code |-> cd,
                 message |-> msg, data |-> dt] :
                  cd \in {PreflightFailure, NodeUnhealthy, MethodNotFound},
                  msg \in {None, "Error"},
                  dt \in {None, "simulation", "slots_behind", "both", "other"}}
ResultFields ==
    {[has_result |-> FALSE, result |-> JsonNull],
     [has_result |-> TRUE, result |-> JsonNull],
     [has_result |-> TRUE, result |-> 50]}
JsonObjects ==
    {[json |-> TRUE, shape |-> "object", error |-> e.error, error_other |-> e.error_other,
      has_code |-> e.has_code, code |-> e.code, message |-> e.message,
      data |-> e.data, has_result |-> r.has_result, result |-> r.result] :
        e \in ErrorFields, r \in ResultFields}
Bodies == {NotJson, JsonNullBody, JsonArray} \cup JsonObjects

\* Result<reqwest::Response, reqwest::Error>
HttpResponse(status, hdr, body) ==
    [ok |-> TRUE, status |-> status, retry_after |-> hdr, body |-> body]
TransportError == [ok |-> FALSE, status |-> 0, retry_after |-> NoHeader, body |-> NotJson]
NoResponse == [ok |-> FALSE, status |-> -1, retry_after |-> NoHeader, body |-> NotJson]

\* What the server and the network can answer to one attempt.
TransportResults ==
    {HttpResponse(200, NoHeader, JsonResult(50)),
     HttpResponse(200, NoHeader, JsonError(MethodNotFound, "Method not found")),
     HttpResponse(200, NoHeader, JsonArray),
     HttpResponse(500, NoHeader, NotJson),
     HttpResponse(TooManyRequests, NoHeader, JsonResult(60)),
     HttpResponse(TooManyRequests, Header(<<"2">>), NotJson),
     TransportError}

IsSuccess(status) == status >= 200 /\ status < 300

TooManyRequestsRetry(num_retries) ==
    [retries_remaining |-> num_retries, rate_limited_time |-> 0]

\* (mutant) a policy that ignores the Retry-After header
BackoffDefaultOnly(response) == DefaultBackoffMs

\* (mutant) a policy that still honours a Retry-After equal to the ceiling
BackoffCeilingInclusive(response) ==
    LET h == response.retry_after
        retry_after == IF h.present /\ h.ascii THEN ParseU64(h.text) ELSE -1
    IN  IF retry_after >= 0 /\ retry_after <= RetryAfterCeiling
        THEN retry_after * MsPerSec
        ELSE DefaultBackoffMs

\* The pause TooManyRequestsRetry::retry chooses for a throttled response, in ms.
Backoff(response) ==
    LET h == response.retry_after
        retry_after == IF h.present /\ h.ascii THEN ParseU64(h.text) ELSE -1
    IN  IF retry_after >= 0 /\ retry_after < RetryAfterCeiling
        THEN retry_after * MsPerSec
        ELSE DefaultBackoffMs

\* (mutant) a policy that still retries when nothing remains of its budget
PolicyRetryEager(p, result) ==
    IF result.ok /\ ~IsSuccess(result.status) /\ result.status = TooManyRequests
          /\ p.retries_remaining >= 0
    THEN [retry |-> TRUE,
          policy |-> [retries_remaining |-> p.retries_remaining - 1,
                      rate_limited_time |-> p.rate_limited_time + Backoff(result)],
          sleep |-> Backoff(result)]
    ELSE [retry |-> FALSE, policy |-> p, sleep |-> 0]

\* (mutant) a policy that retries every response that is not a success
PolicyRetryAnyFailure(p, result) ==
    IF result.ok /\ ~IsSuccess(result.status) /\ p.retries_remaining > 0
    THEN [retry |-> TRUE,
          policy |-> [retries_remaining |-> p.retries_remaining - 1,
                      rate_limited_time |-> p.rate_limited_time + Backoff(result)],
          sleep |-> Backoff(result)]
    ELSE [retry |-> FALSE, policy |-> p, sleep |-> 0]

\* (mutant) a policy that does not add the pause to its rate limited time
PolicyRetryNoAccount(p, result) ==
    IF result.ok /\ ~IsSuccess(result.status) /\ result.status = TooManyRequests
          /\ p.retries_remaining > 0
    THEN [retry |-> TRUE,
          policy |-> [retries_remaining |-> p.retries_remaining - 1,
                      rate_limited_time |-> p.rate_limited_time],
          sleep |-> Backoff(result)]
    ELSE [retry |-> FALSE, policy |-> p, sleep |-> 0]

\* (mutant) a policy that does not count the retries it grants
PolicyRetryKeepBudget(p, result) ==
    IF result.ok /\ ~IsSuccess(result.status) /\ result.status = TooManyRequests
          /\ p.retries_remaining > 0
    THEN [retry |-> TRUE,
          policy |-> [retries_remaining |-> p.retries_remaining,
                      rate_limited_time |-> p.rate_limited_time + Backoff(result)],
          sleep |-> Backoff(result)]
    ELSE [retry |-> FALSE, policy |-> p, sleep |-> 0]

\* TooManyRequestsRetry::retry: Some(sleep) and the mutated policy, or None.
PolicyRetry(p, result) ==
    IF result.ok /\ ~IsSuccess(result.status) /\ result.status = TooManyRequests
          /\ p.retries_remaining > 0
    THEN [retry |-> TRUE,
          policy |-> [retries_remaining |-> p.retries_remaining - 1,
                      rate_limited_time |-> p.rate_limited_time + Backoff(result)],
          sleep |-> Backoff(result)]
    ELSE [retry |-> FALSE, policy |-> p, sleep |-> 0]

\* A request without a body (reqwest::Request::new).
NoBody == [kind |-> "none", bytes |-> ""]

\* TooManyRequestsRetry::clone_request: a new request with the method, URL,
\* headers and timeout of req, and with the bytes of its body where the body
\* is held in memory (Body::as_bytes is None for a streaming body).
CloneRequest(req) ==
    [some |-> TRUE,
     request |-> [method |-> req.method,
                  url |-> req.url,
                  headers |-> req.headers,
                  timeout |-> req.timeout,
                  body |-> IF req.body.kind = "bytes" THEN req.body ELSE NoBody]]

\* (mutant) a Retry service whose calls start with a spent budget
RetryCloneSpent(p) == [p EXCEPT !.retries_remaining = 0]

\* Retry::call hands the response future a clone of the service's policy.
RetryClone(p) == p

\* The function does not return: it panics.
Panic ==
    Err([kind |-> "panic", code |-> 0, text |-> None, request |-> None, data |-> None])

\* (mutant) a parser that decodes the error data whatever the code
ParseRpcErrorAnyCode(body) ==
    IF body.has_code /\ body.message # None
    THEN Err([kind |-> "RpcResponseError", code |-> body.code, text |-> body.message,
              request |-> None,
              data |-> IF body.data \in {"simulation", "both"}
                       THEN "SendTransactionPreflightFailure"
                       ELSE IF body.data \in {"slots_behind", "both"}
                       THEN "NodeUnhealthy"
                       ELSE "Empty"])
    ELSE Err([kind |-> "RpcRequestError", code |-> 0,
              text |-> "Failed to deserialize RPC error response", request |-> None,
              data |-> None])

\* parse_rpc_error: the error object is decoded as RpcErrorObject {code, message};
\* its data is decoded as the type that goes with the code.
ParseRpcError(body) ==
    IF body.has_code /\ body.message # None
    THEN Err([kind |-> "RpcResponseError", code |-> body.code, text |-> body.message,
              request |-> None,
              data |-> IF body.code = PreflightFailure
                            /\ body.data \in {"simulation", "both"}
                       THEN "SendTransactionPreflightFailure"
                       ELSE IF body.code = NodeUnhealthy
                                 /\ body.data \in {"slots_behind", "both"}
                       THEN "NodeUnhealthy"
                       ELSE "Empty"])
    ELSE Err([kind |-> "RpcRequestError", code |-> 0,
              text |-> "Failed to deserialize RPC error response", request |-> None,
              data |-> None])

\* (mutant) a parser that looks for a result before it looks for an error
ParseResponseErrorsResultFirst(body) ==
    IF body.has_result /\ body.shape = "object"
    THEN Ok(body.result)
    ELSE IF body.error
    THEN ParseRpcError(body)
    ELSE IF body.shape \in {"object", "null"}
    THEN Ok(JsonNull)
    ELSE Panic

\* parse_response_errors.  json["error"] reads the field (Null when there is
\* none, or when json is no object); json["result"].take() indexes mutably:
\* that makes null an empty object, inserts Null for a missing key, and panics
\* on a value of any other shape.
ParseResponseErrors(body) ==
    IF body.error
    THEN ParseRpcError(body)
    ELSE IF body.shape \in {"object", "null"}
    THEN Ok(IF body.has_result THEN body.result ELSE JsonNull)
    ELSE Panic

\* (mutant) a parser that takes a body it cannot decode for JSON null
ParseResponseFuturePollLenient(result) ==
    IF ~result.ok THEN Err(OtherError("error sending request"))
    ELSE IF ~result.body.json THEN ParseResponseErrors(JsonNullBody)
    ELSE ParseResponseErrors(result.body)

\* (mutant) a parser that turns a status other than 2xx into an error
ParseResponseFuturePollByStatus(result) ==
    IF ~result.ok THEN Err(OtherError("error sending request"))
    ELSE IF ~IsSuccess(result.status) THEN Err(OtherError("HTTP status client or server error"))
    ELSE IF ~result.body.json THEN Err(OtherError("error decoding response body"))
    ELSE ParseResponseErrors(result.body)

\* ParseResponseFuture::poll once the retry future has resolved.
ParseResponseFuturePoll(result) ==
    IF ~result.ok THEN Err(OtherError("error sending request"))
    ELSE IF ~result.body.json THEN Err(OtherError("error decoding response body"))
    ELSE ParseResponseErrors(result.body)

\* The future of one call on the HTTP stack: its state (Called: an attempt
\* is with the transport, Waiting: asleep before a retry, Resolved: the retry
\* future has yielded the response, whose body is being read), its own
\* policy, and what happened to the call so far:
\*   attempts: requests handed to the transport,
\*   after:    Retry-After header of the throttled response it sleeps on,
\*   waited:   ticks it has spent in that sleep.
NoPolicy == [retries_remaining |-> -1, rate_limited_time |-> -1]
NoHttp == [state |-> None, retry |-> NoPolicy, sleep |-> 0,
           response |-> NoResponse, attempts |-> 0, after |-> NoHeader, waited |-> 0]

\* What an observer of the connection notes of the request of a call in
\* flight: the JSON-RPC id in its body (-1: no request) and how many requests
\* were given an id after it (counted up to 2^IdBits).
NoWire == [id |-> -1, newer |-> 0]
WaitCap == Ticks(2 * MsPerSec)
Waited(w) == IF w < WaitCap THEN w + 1 ELSE w

\* ------------------------------------------------------------------ sender adapter
\* TransportStats::default(), and the guard send holds from its first line to
\* the end of its scope: creating it counts the call as started, dropping it
\* (on return, or when a panic unwinds send) counts it as completed.
TransportStats == [outstanding |-> 0]
StatsUpdaterNew(st) == [st EXCEPT !.outstanding = @ + 1]
StatsUpdaterDrop(st) == [st EXCEPT !.outstanding = @ - 1]

\* send's map_err: a boxed ClientError is returned as it is, any other error
\* becomes a Custom ClientError carrying its text and the request method.
\* (mutant) a sender that wraps every error, a ClientError too
SendMapErrWrapAll(r, method) ==
    IF r.ok
    THEN r
    ELSE Err([kind |-> "Custom", code |-> r.err.code, text |-> r.err.text,
              request |-> method, data |-> r.err.data])

SendMapErr(r, method) ==
    IF r.ok \/ r.err.kind = "ClientError"
    THEN r
    ELSE Err([kind |-> "Custom", code |-> r.err.code, text |-> r.err.text,
              request |-> method, data |-> r.err.data])

\* A sender over the stack ls, no call made yet.
\* ------------------------------------------------------------------ builder
\* ServiceBuilderExt and the client builders: the layers added to the
\* ServiceBuilder, the terminal service, the 429 retry budget and the
\* commitment the client is asked to use.
DefaultRetry429 == 5
Finalized == "finalized"

\* ServiceBuilder::http(url)
HttpClientBuilder(added) ==
    [terminal |-> "http", added |-> added, retry_429 |-> DefaultRetry429,
     commitment |-> None]

\* ServiceBuilder::with_fn(f)
FnClientBuilder(added) ==
    [terminal |-> "fn", added |-> added, retry_429 |-> 0, commitment |-> None]

Retry429(b, n) == [b EXCEPT !.retry_429 = n]
Commitment(b, cm) == [b EXCEPT !.commitment = cm]

\* (mutant) a builder that adds the retry layer whatever the budget
RetryLayerAlways(retry_429) == TooManyRequestsRetry(retry_429)

\* (retry_429 > 0).then(|| RetryLayer::new(TooManyRequestsRetry::new(retry_429)))
RetryLayer(retry_429) ==
    IF retry_429 > 0 THEN TooManyRequestsRetry(retry_429) ELSE NoPolicy

\* into_rpc_client(commitment): a config with the commitment is built, and the
\* client is made with the default config, whose commitment is finalized.
IntoRpcClient(commitment) == [commitment |-> Finalized]

\* The service build_rpc_client assembles.
BuildService(b) ==
    LET stack == StackOf(b.added,
                         IF b.terminal = "http"
                         THEN HttpStages(RetryLayer(b.retry_429) # NoPolicy)
                         ELSE <<"service_fn">>)
    IN  [rate_limit |-> Has(stack, "rate_limit"),
         early_return |-> Has(stack, "early_return"),
         cache |-> Has(stack, "cache"),
         http |-> b.terminal = "http",
         max_cache_age |-> MaxCacheAge,
         stack |-> stack]

BuildRpcClient(b) ==
    [service |-> BuildService(b),
     policy |-> IF b.terminal = "http" THEN RetryLayer(b.retry_429) ELSE NoPolicy,
     client |-> IntoRpcClient(b.commitment)]

ConstructedWith(ls, retry) ==
    /\ pc = [c \in Calls |-> "idle"]
    /\ request = [c \in Calls |-> NoRequest]
    /\ lock = 0
    /\ readyRes = [c \in Calls |-> None]
    /\ fut = [c \in Calls |-> NoFut]
    /\ resp = [c \in Calls |-> NoResult]
    /\ limiter = LimiterReady(0, RateNum)
    /\ cached_values = [p \in Params |-> NoEntry]
    /\ layers = ls
    /\ forwarded = [c \in Calls |-> 0]
    /\ sinceCall = -1
    /\ lastGap = -1
    /\ keyHist = [p \in Params |-> NoHist]
    /\ issuedNow = {}
    /\ policy = retry
    /\ http = [c \in Calls |-> NoHttp]
    /\ request_id = 0
    /\ stats = TransportStats

\* The sender over a stack of the tests; default_http_service builds its retry
\* layer with a fixed budget.
Constructed(ls) == ConstructedWith(ls, TooManyRequestsRetry(NumRetries))

InitWith(ls) ==
    /\ Constructed(ls)
    /\ input = None
    /\ output = None
    /\ wire = <<>>

\* Places of a call slot at which no invocation of send is in progress: none
\* was made, the last one returned, or the last one unwound with a panic.
Over == {"idle", "done", "panicked"}

\* send is entered with a request.  Invocations are interchangeable, so a new
\* one takes the first place that is free.
SendBegin(c) ==
    /\ pc[c] \in Over
    /\ \A d \in Calls : d < c => pc[d] \notin Over
    /\ \E req \in Workload(layers) : request' = [request EXCEPT ![c] = req]
    /\ pc' = [pc EXCEPT ![c] = "locking"]
    /\ resp' = [resp EXCEPT ![c] = NoResult]
    /\ UNCHANGED <<lock, readyRes, fut, limiter, cached_values, layers, forwarded,
                   sinceCall, lastGap, keyHist,
                   issuedNow>>
    /\ UNCHANGED httpVars
    /\ UNCHANGED pureVars
    /\ stats' = StatsUpdaterNew(stats)

\* (mutant) a sender that takes the pipeline without waiting for the lock
SendAcquireUnguarded(c) ==
    /\ pc[c] = "locking"
    /\ lock' = c
    /\ pc' = [pc EXCEPT ![c] = "polling"]
    /\ UNCHANGED <<request, readyRes, fut, resp, limiter, cached_values, layers,
                   forwarded, sinceCall, lastGap, keyHist,
                   issuedNow>>
    /\ UNCHANGED httpVars
    /\ UNCHANGED pureVars
    /\ UNCHANGED stats

\* self.service.write().await
SendAcquire(c) ==
    /\ pc[c] = "locking"
    /\ lock = 0
    /\ lock' = c
    /\ pc' = [pc EXCEPT ![c] = "polling"]
    /\ UNCHANGED <<request, readyRes, fut, resp, limiter, cached_values, layers,
                   forwarded, sinceCall, lastGap, keyHist,
                   issuedNow>>
    /\ UNCHANGED httpVars
    /\ UNCHANGED pureVars
    /\ UNCHANGED stats

\* (mutant) a sender that returns the readiness error without letting go of
\* the write guard
SendReadyKeepGuard(c) ==
    /\ pc[c] = "polling"
    /\ ~PipelinePending(layers, limiter)
    /\ limiter' = IF layers.rate_limit THEN RateLimitPollReady(limiter) ELSE limiter
    /\ \E r \in PollReadyResults(layers) :
          IF r = "err"
          THEN /\ pc' = [pc EXCEPT ![c] = "done"]
               /\ resp' = [resp EXCEPT ![c] =
                             SendMapErr(Err(OtherError("not ready")), request[c].method)]
               /\ stats' = StatsUpdaterDrop(stats)
               /\ UNCHANGED readyRes
          ELSE /\ pc' = [pc EXCEPT ![c] = "calling"]
               /\ readyRes' = [readyRes EXCEPT ![c] = r]
               /\ UNCHANGED <<resp, stats>>
    /\ UNCHANGED <<request, lock, fut, cached_values, layers,
                   forwarded, sinceCall, lastGap, keyHist,
                   issuedNow>>
    /\ UNCHANGED httpVars
    /\ UNCHANGED pureVars

\* (mutant) a sender that returns the readiness error instead of calling
SendReadyFailFast(c) ==
    /\ pc[c] = "polling"
    /\ ~PipelinePending(layers, limiter)
    /\ limiter' = IF layers.rate_limit THEN RateLimitPollReady(limiter) ELSE limiter
    /\ \E r \in PollReadyResults(layers) :
          IF r = "err"
          THEN /\ pc' = [pc EXCEPT ![c] = "done"]
               /\ resp' = [resp EXCEPT ![c] =
                             SendMapErr(Err(OtherError("not ready")), request[c].method)]
               /\ lock' = 0
               /\ stats' = StatsUpdaterDrop(stats)
               /\ UNCHANGED readyRes
          ELSE /\ pc' = [pc EXCEPT ![c] = "calling"]
               /\ readyRes' = [readyRes EXCEPT ![c] = r]
               /\ UNCHANGED <<resp, lock, stats>>
    /\ UNCHANGED <<request, fut, cached_values, layers,
                   forwarded, sinceCall, lastGap, keyHist,
                   issuedNow>>
    /\ UNCHANGED httpVars
    /\ UNCHANGED pureVars

\* service.ready().await resolves: Ok, or an error that is only logged.
SendReady(c) ==
    /\ pc[c] = "polling"
    /\ ~PipelinePending(layers, limiter)
    /\ limiter' = IF layers.rate_limit THEN RateLimitPollReady(limiter) ELSE limiter
    /\ \E r \in PollReadyResults(layers) : readyRes' = [readyRes EXCEPT ![c] = r]
    /\ pc' = [pc EXCEPT ![c] = "calling"]
    /\ UNCHANGED <<request, lock, fut, resp, cached_values, layers,
                   forwarded, sinceCall, lastGap, keyHist,
                   issuedNow>>
    /\ UNCHANGED httpVars
    /\ UNCHANGED pureVars
    /\ UNCHANGED stats

\* service.call reaches the call of a rate limiter that is in state Limited.
CallPanics(c) ==
    /\ PipelineCall(request[c], cached_values, layers).limited
    /\ limiter.state = "Limited"

\* let fut = service.call((request, params)); on a path that does not end in
\* the HTTP service.
SendCall(c) ==
    /\ pc[c] = "calling"
    /\ CallPanics(c) \/ PipelineCall(request[c], cached_values, layers).fut.kind # "http"
    /\ IF CallPanics(c)
       THEN \* RateLimit::call panics; unwinding drops the write guard
            /\ pc' = [pc EXCEPT ![c] = "panicked"]
            /\ lock' = IF lock = c THEN 0 ELSE lock
            /\ UNCHANGED <<fut, limiter, forwarded, sinceCall, lastGap, keyHist,
                           issuedNow>>
       ELSE LET d == PipelineCall(request[c], cached_values, layers)
            IN  /\ limiter' = IF d.limited THEN RateLimitCall(limiter) ELSE limiter
                /\ fut' = [fut EXCEPT ![c] = d.fut]
                /\ forwarded' = [forwarded EXCEPT ![c] = @ + d.calls]
                /\ sinceCall' = IF d.limited THEN 0 ELSE sinceCall
                /\ lastGap' = IF d.limited THEN sinceCall ELSE lastGap
                /\ issuedNow' = IF request[c].method = RequestType /\ d.calls > 0
                                THEN issuedNow \cup {c}
                                ELSE issuedNow
                /\ UNCHANGED keyHist
                /\ pc' = [pc EXCEPT ![c] = "dispatched"]
                /\ UNCHANGED lock
    /\ UNCHANGED <<request, readyRes, resp, cached_values, layers>>
    /\ UNCHANGED httpVars
    /\ UNCHANGED pureVars
    /\ stats' = IF CallPanics(c) THEN StatsUpdaterDrop(stats) ELSE stats

\* (mutant) a sender that keeps the write guard while it awaits the future
SendReleaseKeep(c) ==
    /\ pc[c] = "dispatched"
    /\ pc' = [pc EXCEPT ![c] = "awaiting"]
    /\ readyRes' = [readyRes EXCEPT ![c] = None]
    /\ UNCHANGED <<request, lock, fut, resp, limiter, cached_values, layers,
                   forwarded, sinceCall, lastGap, keyHist,
                   issuedNow>>
    /\ UNCHANGED httpVars
    /\ UNCHANGED pureVars
    /\ UNCHANGED stats

\* drop(service);
SendRelease(c) ==
    /\ pc[c] = "dispatched"
    /\ lock' = IF lock = c THEN 0 ELSE lock
    /\ pc' = [pc EXCEPT ![c] = "awaiting"]
    /\ readyRes' = [readyRes EXCEPT ![c] = None]
    /\ UNCHANGED <<request, fut, resp, limiter, cached_values, layers,
                   forwarded, sinceCall, lastGap, keyHist,
                   issuedNow>>
    /\ UNCHANGED httpVars
    /\ UNCHANGED pureVars
    /\ UNCHANGED stats

\* (mutant) a sender whose await never returns when the future yields an error
SendCompleteOkOnly(c) ==
    /\ pc[c] = "awaiting"
    /\ fut[c].kind # "http"
    /\ \E r \in (IF fut[c].kind = "ready"
                 THEN {fut[c].result}
                 ELSE TerminalResults(request[c])) :
          /\ r.ok
          /\ cached_values' = CachedResponseFuturePoll(fut[c], r, cached_values)
          /\ resp' = [resp EXCEPT ![c] = r]
          /\ keyHist' = IF request[c].method = RequestType /\ forwarded[c] > 0
                        THEN [keyHist EXCEPT ![request[c].params].stored = 0,
                                             ![request[c].params].value = r.val]
                        ELSE keyHist
    /\ pc' = [pc EXCEPT ![c] = "done"]
    /\ request' = [request EXCEPT ![c] = NoRequest]
    /\ fut' = [fut EXCEPT ![c] = NoFut]
    /\ forwarded' = [forwarded EXCEPT ![c] = 0]
    /\ issuedNow' = issuedNow \ {c}
    /\ wire' = IF wire # <<>> /\ fut[c].kind = "cached" /\ cached_values' # cached_values
               THEN [wire EXCEPT ![fut[c].key] = c \notin issuedNow]
               ELSE wire
    /\ UNCHANGED <<lock, readyRes, limiter, layers, sinceCall, lastGap>>
    /\ UNCHANGED httpVars
    /\ UNCHANGED <<input, output>>
    /\ stats' = StatsUpdaterDrop(stats)

\* fut.await resolves and send returns the mapped result.
SendComplete(c) ==
    /\ pc[c] = "awaiting"
    /\ fut[c].kind # "http"
    /\ \E r \in (IF fut[c].kind = "ready"
                 THEN {fut[c].result}
                 ELSE TerminalResults(request[c])) :
          /\ cached_values' = CachedResponseFuturePoll(fut[c], r, cached_values)
          /\ resp' = [resp EXCEPT ![c] = SendMapErr(r, request[c].method)]
          /\ keyHist' = IF request[c].method = RequestType /\ forwarded[c] > 0 /\ r.ok
                        THEN [keyHist EXCEPT ![request[c].params].stored = 0,
                                             ![request[c].params].value = r.val]
                        ELSE keyHist
    /\ pc' = [pc EXCEPT ![c] = "done"]
    /\ request' = [request EXCEPT ![c] = NoRequest]
    /\ fut' = [fut EXCEPT ![c] = NoFut]
    /\ forwarded' = [forwarded EXCEPT ![c] = 0]
    /\ issuedNow' = issuedNow \ {c}
    /\ wire' = IF wire # <<>> /\ fut[c].kind = "cached" /\ cached_values' # cached_values
               THEN [wire EXCEPT ![fut[c].key] = c \notin issuedNow]
               ELSE wire
    /\ UNCHANGED <<lock, readyRes, limiter, layers, sinceCall, lastGap>>
    /\ UNCHANGED httpVars
    /\ UNCHANGED <<input, output>>
    /\ stats' = StatsUpdaterDrop(stats)

\* (mutant) a counter that stays at its highest value
FetchAddSaturating(counter) ==
    [id |-> counter,
     counter |-> IF counter + 1 < 2 ^ IdBits THEN counter + 1 ELSE counter]

\* self.request_id.fetch_add(1, Ordering::Relaxed): returns the counter and
\* adds one to it, wrapping around.
FetchAdd(counter) == [id |-> counter, counter |-> (counter + 1) % (2 ^ IdBits)]

\* service.call on the HTTP stack: the request builder takes the next id and
\* builds the request, Retry::call clones it and the policy and calls the client.
HttpCall(c) ==
    /\ pc[c] = "calling"
    /\ ~CallPanics(c)
    /\ PipelineCall(request[c], cached_values, layers).fut.kind = "http"
    /\ request_id' = FetchAdd(request_id).counter
    /\ http' = [http EXCEPT ![c] = [NoHttp EXCEPT !.state = "Called",
                                                  !.retry = RetryClone(policy),
                                                  !.attempts = 1]]
    /\ wire' = IF wire = <<>>
               THEN <<>>
               ELSE [d \in Calls |->
                       IF d = c
                       THEN [NoWire EXCEPT !.id = FetchAdd(request_id).id]
                       ELSE IF wire[d].id >= 0 /\ wire[d].newer < 2 ^ IdBits
                       THEN [wire[d] EXCEPT !.newer = @ + 1]
                       ELSE wire[d]]
    /\ fut' = [fut EXCEPT ![c] = HttpFut]
    /\ pc' = [pc EXCEPT ![c] = "dispatched"]
    /\ LET d == PipelineCall(request[c], cached_values, layers)
       IN  /\ limiter' = IF d.limited THEN RateLimitCall(limiter) ELSE limiter
           /\ sinceCall' = IF d.limited THEN 0 ELSE sinceCall
           /\ lastGap' = IF d.limited THEN sinceCall ELSE lastGap
    /\ UNCHANGED <<request, lock, readyRes, resp, layers, policy>>
    /\ UNCHANGED <<cached_values, forwarded, keyHist, issuedNow>>
    /\ UNCHANGED <<input, output>>
    /\ UNCHANGED stats

\* ResponseFuture::poll, the attempt is answered and the policy asks for a
\* retry: sleep first.
HttpRetry(c) ==
    /\ pc[c] = "awaiting"
    /\ http[c].state = "Called"
    /\ http[c].retry # NoPolicy
    /\ \E r \in TransportResults :
          LET d == PolicyRetry(http[c].retry, r)
          IN  /\ d.retry
              /\ http' = [http EXCEPT ![c].state = "Waiting",
                                      ![c].retry = d.policy,
                                      ![c].sleep = Ticks(d.sleep),
                                      ![c].after = r.retry_after,
                                      ![c].waited = 0]
    /\ UNCHANGED <<pc, request, lock, readyRes, fut, resp, layers, policy, request_id>>
    /\ UNCHANGED mockVars
    /\ UNCHANGED pureVars
    /\ UNCHANGED stats

\* (mutant) a retry stage outside the request builder: every attempt is built
\* anew and takes an id of its own
HttpWakeRebuilt(c) ==
    /\ pc[c] = "awaiting"
    /\ http[c].state = "Waiting"
    /\ http[c].sleep = 0
    /\ http' = [http EXCEPT ![c].state = "Called", ![c].attempts = @ + 1,
                            ![c].after = NoHeader, ![c].waited = 0]
    /\ request_id' = FetchAdd(request_id).counter
    /\ wire' = IF wire = <<>> THEN <<>>
               ELSE [wire EXCEPT ![c].id = FetchAdd(request_id).id]
    /\ UNCHANGED <<pc, request, lock, readyRes, fut, resp, layers, policy>>
    /\ UNCHANGED mockVars
    /\ UNCHANGED <<input, output>>
    /\ UNCHANGED stats

\* ResponseFuture::poll, the sleep is over: the cloned request goes to the client.
HttpWake(c) ==
    /\ pc[c] = "awaiting"
    /\ http[c].state = "Waiting"
    /\ http[c].sleep = 0
    /\ http' = [http EXCEPT ![c].state = "Called", ![c].attempts = @ + 1,
                            ![c].after = NoHeader, ![c].waited = 0]
    /\ UNCHANGED <<pc, request, lock, readyRes, fut, resp, layers, policy, request_id>>
    /\ UNCHANGED mockVars
    /\ UNCHANGED pureVars
    /\ UNCHANGED stats

\* ResponseFuture::poll, the attempt is answered and the policy does not
\* retry: the retry future yields the result to ParseResponseFuture and is
\* finished, its policy with it.
HttpResolve(c) ==
    /\ pc[c] = "awaiting"
    /\ http[c].state = "Called"
    /\ \E r \in TransportResults :
          /\ http[c].retry = NoPolicy \/ ~PolicyRetry(http[c].retry, r).retry
          /\ http' = [http EXCEPT ![c] = [NoHttp EXCEPT !.state = "Resolved",
                                                        !.response = r,
                                                        !.attempts = http[c].attempts]]
    /\ UNCHANGED <<pc, request, lock, readyRes, fut, resp, layers, policy, request_id>>
    /\ UNCHANGED mockVars
    /\ UNCHANGED pureVars
    /\ UNCHANGED stats

\* (mutant) a sender that records the completion only when it returns a value
HttpCompleteLeak(c) ==
    /\ pc[c] = "awaiting"
    /\ http[c].state = "Resolved"
    /\ LET r == ParseResponseFuturePoll(http[c].response)
       IN  IF r = Panic
           THEN /\ pc' = [pc EXCEPT ![c] = "panicked"]
                /\ UNCHANGED resp
           ELSE /\ pc' = [pc EXCEPT ![c] = "done"]
                /\ resp' = [resp EXCEPT ![c] = SendMapErr(r, request[c].method)]
    /\ request' = [request EXCEPT ![c] = NoRequest]
    /\ fut' = [fut EXCEPT ![c] = NoFut]
    /\ http' = [http EXCEPT ![c] = NoHttp]
    /\ wire' = IF wire = <<>> THEN <<>> ELSE [wire EXCEPT ![c] = NoWire]
    /\ UNCHANGED <<lock, readyRes, layers, policy, request_id>>
    /\ UNCHANGED mockVars
    /\ UNCHANGED <<input, output>>
    /\ stats' = IF ParseResponseFuturePoll(http[c].response).ok
                THEN StatsUpdaterDrop(stats)
                ELSE stats

\* (mutant) a sender that returns results in the order of dispatch
HttpCompleteInOrder(c) ==
    /\ pc[c] = "awaiting"
    /\ http[c].state = "Resolved"
    /\ wire = <<>> \/ \A d \in Calls : wire[d].id < 0 \/ wire[d].newer <= wire[c].newer
    /\ LET r == ParseResponseFuturePoll(http[c].response)
       IN  IF r = Panic
           THEN /\ pc' = [pc EXCEPT ![c] = "panicked"]
                /\ UNCHANGED resp
           ELSE /\ pc' = [pc EXCEPT ![c] = "done"]
                /\ resp' = [resp EXCEPT ![c] = SendMapErr(r, request[c].method)]
    /\ request' = [request EXCEPT ![c] = NoRequest]
    /\ fut' = [fut EXCEPT ![c] = NoFut]
    /\ http' = [http EXCEPT ![c] = NoHttp]
    /\ wire' = IF wire = <<>> THEN <<>> ELSE [wire EXCEPT ![c] = NoWire]
    /\ UNCHANGED <<lock, readyRes, layers, policy, request_id>>
    /\ UNCHANGED mockVars
    /\ UNCHANGED <<input, output>>
    /\ stats' = StatsUpdaterDrop(stats)

\* ParseResponseFuture::poll has the body (or the error): the parsed result
\* goes through send's map_err to the caller; a panic of the parser unwinds
\* send, which returns nothing.
HttpComplete(c) ==
    /\ pc[c] = "awaiting"
    /\ http[c].state = "Resolved"
    /\ LET r == ParseResponseFuturePoll(http[c].response)
       IN  IF r = Panic
           THEN /\ pc' = [pc EXCEPT ![c] = "panicked"]
                /\ UNCHANGED resp
           ELSE /\ pc' = [pc EXCEPT ![c] = "done"]
                /\ resp' = [resp EXCEPT ![c] = SendMapErr(r, request[c].method)]
    /\ request' = [request EXCEPT ![c] = NoRequest]
    /\ fut' = [fut EXCEPT ![c] = NoFut]
    /\ http' = [http EXCEPT ![c] = NoHttp]
    /\ wire' = IF wire = <<>> THEN <<>> ELSE [wire EXCEPT ![c] = NoWire]
    /\ UNCHANGED <<lock, readyRes, layers, policy, request_id>>
    /\ UNCHANGED mockVars
    /\ UNCHANGED <<input, output>>
    /\ stats' = StatsUpdaterDrop(stats)

\* A task that can run now: it is not suspended on the lock, on a pending
\* poll_ready, on a sleep or on a future that has not resolved.
Runnable(c) ==
    \/ pc[c] \in {"calling", "dispatched"}
    \/ pc[c] = "locking" /\ lock = 0
    \/ pc[c] = "polling" /\ ~PipelinePending(layers, limiter)
    \/ pc[c] = "awaiting" /\ fut[c].kind = "ready"
    \/ http[c].state = "Waiting" /\ http[c].sleep = 0

\* One tick of time passes.  Running code takes no time: time passes while
\* every task in send is suspended.
Tick ==
    /\ \A c \in Calls : ~Runnable(c)
    /\ limiter' = [limiter EXCEPT !.until = Sooner(@)]
    /\ cached_values' = [p \in Params |->
                           [cached_values[p] EXCEPT !.at = OlderEntry(@)]]
    /\ sinceCall' = Older(sinceCall)
    /\ keyHist' = [p \in Params |-> [keyHist[p] EXCEPT !.stored = OlderEntry(@)]]
    /\ issuedNow' = {}
    /\ http' = [c \in Calls |->
                  IF http[c].state = "Waiting"
                  THEN [http[c] EXCEPT !.sleep = Sooner(@), !.waited = Waited(@)]
                  ELSE http[c]]
    /\ UNCHANGED <<pc, request, lock, readyRes, fut, resp, layers, forwarded, lastGap,
                   policy, request_id>>
    /\ UNCHANGED pureVars
    /\ UNCHANGED stats

Next ==
    \/ \E c \in Calls : SendBegin(c)
    \/ \E c \in Calls : SendAcquire(c)
    \/ \E c \in Calls : SendReady(c)
    \/ \E c \in Calls : SendCall(c)
    \/ \E c \in Calls : SendRelease(c)
    \/ \E c \in Calls : SendComplete(c)
    \/ Tick

Init == InitWith(Layers(TRUE, TRUE, TRUE, FALSE))
Spec == Init /\ [][Next]_vars

LimInit == InitWith(Layers(TRUE, FALSE, FALSE, FALSE))
LimSpec == LimInit /\ [][Next]_vars

CacheInit == InitWith(Layers(FALSE, FALSE, TRUE, FALSE))
CacheSpec == CacheInit /\ [][Next]_vars

\* The cache layer made with a TTL of zero, and with a shorter TTL than
\* CacheSpec's.
Ttls == {0, MaxCacheAge - 1}
TtlInit ==
    \E ttl \in Ttls :
        InitWith([Layers(FALSE, FALSE, TRUE, FALSE) EXCEPT !.max_cache_age = ttl])
TtlSpec == TtlInit /\ [][Next]_vars

EarlyInit == InitWith(Layers(FALSE, TRUE, FALSE, FALSE))
EarlySpec == EarlyInit /\ [][Next]_vars

\* The sender over default_http_service.
HttpNext ==
    \/ \E c \in Calls : SendBegin(c)
    \/ \E c \in Calls : SendAcquire(c)
    \/ \E c \in Calls : SendReady(c)
    \/ \E c \in Calls : HttpCall(c)
    \/ \E c \in Calls : SendRelease(c)
    \/ \E c \in Calls : HttpRetry(c)
    \/ \E c \in Calls : HttpWake(c)
    \/ \E c \in Calls : HttpResolve(c)
    \/ \E c \in Calls : HttpComplete(c)
    \/ Tick

HttpInit == InitWith(Layers(FALSE, FALSE, FALSE, TRUE))
HttpSpec == HttpInit /\ [][HttpNext]_vars

\* Clients made by the builders: layers added in either order over a service
\* function, and layers over the HTTP service without the retry layer.  input
\* is the builder, output the client's configuration.
Builders ==
    {FnClientBuilder(<<"rate_limit", "early_return">>),
     Commitment(FnClientBuilder(<<"early_return", "rate_limit">>), "confirmed"),
     Commitment(Retry429(HttpClientBuilder(<<"early_return">>), 0), "processed"),
     Commitment(Retry429(HttpClientBuilder(<<"rate_limit">>), 0), Finalized)}

BuiltInitWith(bs) ==
    \E b \in bs :
        /\ ConstructedWith(BuildRpcClient(b).service, BuildRpcClient(b).policy)
        /\ input = b
        /\ output = BuildRpcClient(b).client
        /\ wire = <<>>

BuiltNext ==
    \/ \E c \in Calls : SendBegin(c)
    \/ \E c \in Calls : SendAcquire(c)
    \/ \E c \in Calls : SendReady(c)
    \/ \E c \in Calls : SendCall(c)
    \/ \E c \in Calls : HttpCall(c)
    \/ \E c \in Calls : SendRelease(c)
    \/ \E c \in Calls : SendComplete(c)
    \/ \E c \in Calls : HttpResolve(c)
    \/ \E c \in Calls : HttpComplete(c)
    \/ Tick

BuiltInit == BuiltInitWith(Builders)
BuiltSpec == BuiltInit /\ [][BuiltNext]_vars

\* HTTP clients built with a retry budget of zero and with a positive one.
Budgets == {0, NumRetries}
RetryInit == BuiltInitWith({Retry429(HttpClientBuilder(<<>>), n) : n \in Budgets})
RetrySpec == RetryInit /\ [][HttpNext]_vars

\* The HTTP service without the retry layer, its requests observed on the
\* connection.  (Nothing waits for time to pass here.)
WireNext ==
    \/ \E c \in Calls : SendBegin(c)
    \/ \E c \in Calls : SendAcquire(c)
    \/ \E c \in Calls : SendReady(c)
    \/ \E c \in Calls : HttpCall(c)
    \/ \E c \in Calls : SendRelease(c)
    \/ \E c \in Calls : HttpResolve(c)
    \/ \E c \in Calls : HttpComplete(c)

WireInit ==
    /\ ConstructedWith(BuildService(Retry429(HttpClientBuilder(<<>>), 0)), RetryLayer(0))
    /\ input = None
    /\ output = None
    /\ wire = [c \in Calls |-> NoWire]
WireSpec == WireInit /\ [][WireNext]_vars

\* Two callers of a client made by HttpClientBuilder, with and without the
\* retry stage, their requests observed on the connection.
Callers == 1..2
AttemptsNext ==
    \/ \E c \in Callers : SendBegin(c)
    \/ \E c \in Callers : SendAcquire(c)
    \/ \E c \in Callers : SendReady(c)
    \/ \E c \in Callers : HttpCall(c)
    \/ \E c \in Callers : SendRelease(c)
    \/ \E c \in Callers : HttpRetry(c)
    \/ \E c \in Callers : HttpWake(c)
    \/ \E c \in Callers : HttpResolve(c)
    \/ \E c \in Callers : HttpComplete(c)
    \/ Tick

AttemptsInit ==
    /\ \E n \in Budgets :
          ConstructedWith(BuildService(Retry429(HttpClientBuilder(<<>>), n)), RetryLayer(n))
    /\ input = None
    /\ output = None
    /\ wire = [c \in Calls |-> NoWire]
AttemptsSpec == AttemptsInit /\ [][AttemptsNext]_vars

\* Two callers of a client whose early-return layer, or cache, was added
\* before the rate limiter and so is nearer the caller.
ShortNext ==
    \/ \E c \in Callers : SendBegin(c)
    \/ \E c \in Callers : SendAcquire(c)
    \/ \E c \in Callers : SendReady(c)
    \/ \E c \in Callers : SendCall(c)
    \/ \E c \in Callers : SendRelease(c)
    \/ \E c \in Callers : SendComplete(c)
    \/ Tick

ShortInit == BuiltInitWith({FnClientBuilder(<<"early_return", "rate_limit">>),
                            FnClientBuilder(<<"cache", "rate_limit">>)})
ShortSpec == ShortInit /\ [][ShortNext]_vars

\* Two callers of a client with the cache, the forwards that store entries
\* observed.
LateInit ==
    /\ Constructed(Layers(FALSE, FALSE, TRUE, FALSE))
    /\ input = None
    /\ output = None
    /\ wire = [p \in Params |-> FALSE]
LateSpec == LateInit /\ [][ShortNext]_vars

\* The retry policy on its own: retry is called on the policy input.policy
\* with the result input.result of an attempt; output is what it returns and
\* the policy as it leaves it.
RetryAfterHeaders ==
    {NoHeader, OpaqueHeader, Header(<<>>), Header(<<"0">>), Header(<<"2">>),
     Header(<<"1", "1", "9">>), Header(<<"1", "2", "0">>), Header(<<"+", "5">>),
     Header(<<"-", "1">>), Header(<<"W", "e", "d">>)}
PolicyInputs ==
    {[policy |-> [retries_remaining |-> n, rate_limited_time |-> t], result |-> r] :
        n \in 0..NumRetries, t \in {0, DefaultBackoffMs},
        r \in {TransportError}
                 \cup {HttpResponse(st, h, NotJson) :
                          st \in {200, 204, 404, 500, TooManyRequests},
                          h \in RetryAfterHeaders}}

PolicyPoll ==
    /\ input \in PolicyInputs
    /\ output = NoResult
    /\ output' = PolicyRetry(input.policy, input.result)
    /\ UNCHANGED <<pc, request, lock, readyRes, fut, resp, layers, input, wire>>
    /\ UNCHANGED mockVars
    /\ UNCHANGED httpVars
    /\ UNCHANGED stats

PolicyInit ==
    /\ Constructed(Layers(FALSE, FALSE, FALSE, TRUE))
    /\ input \in PolicyInputs
    /\ output = NoResult
    /\ wire = <<>>
PolicySpec == PolicyInit /\ [][PolicyPoll]_vars

\* clone_request on its own: the request of an attempt is input, what the
\* policy keeps for the next attempt is output.
ClonePoll ==
    /\ output = NoResult
    /\ output' = CloneRequest(input)
    /\ UNCHANGED <<pc, request, lock, readyRes, fut, resp, layers, input, wire>>
    /\ UNCHANGED mockVars
    /\ UNCHANGED httpVars
    /\ UNCHANGED stats

CloneInit ==
    /\ Constructed(Layers(FALSE, FALSE, FALSE, TRUE))
    /\ \E m \in {"POST", "GET"}, u \in {"http://a", "http://b"},
          h \in {<<>>, <<"content-type">>}, t \in {None, "30s"},
          b \in {NoBody} \cup {[kind |-> k, bytes |-> x] :
                                  k \in {"bytes", "stream"}, x \in {"", "{}"}} :
          input = [method |-> m, url |-> u, headers |-> h, timeout |-> t, body |-> b]
    /\ output = NoResult
    /\ wire = <<>>
CloneSpec == CloneInit /\ [][ClonePoll]_vars

\* The response parser on its own: the retry future has yielded input, and
\* ParseResponseFuture::poll completes with output.
Statuses == {200, 500, TooManyRequests}
ParseInputs ==
    {TransportError} \cup {HttpResponse(st, NoHeader, b) : st \in Statuses, b \in Bodies}

ParsePoll ==
    /\ input \in ParseInputs
    /\ output = NoResult
    /\ output' = ParseResponseFuturePoll(input)
    /\ UNCHANGED <<pc, request, lock, readyRes, fut, resp, layers, input, wire>>
    /\ UNCHANGED mockVars
    /\ UNCHANGED httpVars
    /\ UNCHANGED stats

ParseNext == ParsePoll
ParseInit ==
    /\ Constructed(Layers(FALSE, FALSE, FALSE, TRUE))
    /\ input \in ParseInputs
    /\ output = NoResult
    /\ wire = <<>>
ParseSpec == ParseInit /\ [][ParseNext]_vars

\* The scheduling the runtime gives: every task that can take a step does so
\* in the end; the write lock is handed out fairly (FIFO); time goes on however
\* often a task is in a section that takes none.  Proceed(c) is whichever step
\* the task of call c can take once it holds the lock; the dispatched future
\* resolves in the end.
Proceed(c) ==
    \/ SendReady(c) \/ SendCall(c) \/ HttpCall(c) \/ SendRelease(c)
    \/ HttpRetry(c) \/ HttpWake(c) \/ HttpResolve(c)
    \/ SendComplete(c) \/ HttpComplete(c)

Fairness ==
    /\ \A c \in Calls : SF_vars(SendAcquire(c)) /\ WF_vars(Proceed(c))
    /\ SF_vars(Tick)

\* Either pipeline: the full stack of layers over a terminal function, or the
\* HTTP stack.
FairNext ==
    \/ \E c \in Calls : SendBegin(c)
    \/ \E c \in Calls : SendAcquire(c)
    \/ \E c \in Calls : SendReady(c)
    \/ \E c \in Calls : SendCall(c)
    \/ \E c \in Calls : HttpCall(c)
    \/ \E c \in Calls : SendRelease(c)
    \/ \E c \in Calls : HttpRetry(c)
    \/ \E c \in Calls : HttpWake(c)
    \/ \E c \in Calls : HttpResolve(c)
    \/ \E c \in Calls : SendComplete(c)
    \/ \E c \in Calls : HttpComplete(c)
    \/ Tick

FairInit == Init \/ HttpInit
FairSpec == FairInit /\ [][FairNext]_vars /\ Fairness

\* The sender over the rate limiter under the same scheduling.
LimFairSpec == LimInit /\ [][Next]_vars /\ Fairness

\* ================================================================== claims
Locked == {"polling", "calling", "dispatched"}

\* C1: at most one invocation of send is between acquiring the pipeline's lock
\* and releasing it: a call that polls readiness, calls or has just called is
\* the lock's holder, so no poll_ready/call of another dispatch falls in
\* between (and the rate limiter's call never meets the Limited state).
C1_ExclusiveDispatch ==
    \A c \in Calls : /\ pc[c] \in Locked => lock = c
                     /\ pc[c] # "panicked"

\* One call is about to call the pipeline while another waits for the lock.
C1_Witness ==
    \E c, d \in Calls : c # d /\ pc[c] = "calling" /\ pc[d] = "locking"

\* C2: the lock is released before the returned future is awaited: it is
\* held only by a call that is polling readiness or calling, never by one
\* that awaits its response.
C2_ReleasedBeforeAwait ==
    /\ \A c \in Calls : pc[c] = "awaiting" => lock # c
    /\ lock # 0 => pc[lock] \in Locked

\* Two calls are in flight at once: both dispatched, both futures pending.
C2_Witness ==
    \E c, d \in Calls : /\ c # d
                         /\ pc[c] = "awaiting" /\ fut[c].kind = "inner"
                         /\ pc[d] = "awaiting" /\ fut[d].kind = "inner"

\* C3 as stated: call is invoked only after poll_ready signalled ready for
\* that dispatch, and two calls through a limiter of one request per period
\* are at least one period apart.
C3_Original ==
    /\ \A c \in Calls : pc[c] = "dispatched" => readyRes[c] = "ok"
    /\ lastGap = -1 \/ lastGap >= RatePer

\* C3 amended: call is invoked only after the readiness await of that dispatch
\* has resolved, with ready or with an error (which send only logs); while
\* the limiter is not ready no call is dispatched, so two calls through a
\* limiter of one request per period are at least one period apart.
C3_CallAfterReadiness ==
    /\ \A c \in Calls : /\ pc[c] \in {"calling", "dispatched"}
                            => readyRes[c] \in {"ok", "err"} /\ lock = c
                        /\ pc[c] # "panicked"
    /\ lastGap = -1 \/ lastGap >= RatePer

\* A second call has been dispatched, one period or more after the first.
C3_Witness ==
    /\ lastGap >= RatePer
    /\ \E c \in Calls : pc[c] = "dispatched" /\ readyRes[c] = "ok"


\* C4: every request handed to send gets exactly one outcome: a call that has
\* entered send returns in the end, it has an outcome exactly when it has
\* returned, and the outcome is set by the return and by nothing else.
C4_OneOutcome ==
    /\ \A c \in Calls : (pc[c] = "locking") ~> (pc[c] = "done")
    /\ [](\A c \in Calls : (pc[c] = "done") <=> (resp[c] # NoResult))
    /\ [][\A c \in Calls : resp'[c] # resp[c] =>
              \/ pc[c] = "awaiting" /\ pc'[c] = "done"
              \/ pc'[c] = "locking" /\ resp'[c] = NoResult]_vars

\* C4, what the code guarantees: a call that has entered send returns in the
\* end unless the response parser panics under it; it has an outcome exactly
\* when it has returned, and the outcome is set by the return and by nothing
\* else.
C4_OutcomeUnlessPanic ==
    /\ \A c \in Calls : (pc[c] = "locking") ~> (pc[c] \in {"done", "panicked"})
    /\ [](\A c \in Calls : (pc[c] = "done") <=> (resp[c] # NoResult))
    /\ [][\A c \in Calls :
            /\ resp'[c] # resp[c] =>
                  \/ pc[c] = "awaiting" /\ pc'[c] = "done"
                  \/ pc'[c] = "locking" /\ resp'[c] = NoResult
            /\ pc'[c] = "panicked" /\ pc[c] # "panicked" =>
                  /\ http[c].state = "Resolved"
                  /\ http[c].response.body.shape = "array"]_vars

\* Two calls have returned, one with a value and one with an error.
C4_Witness ==
    \E c, d \in Calls : /\ pc[c] = "done" /\ resp[c].ok
                         /\ pc[d] = "done" /\ ~resp[d].ok /\ resp[d] # NoResult

\* A step in which service.call runs for c / in which send returns for c.
CallStep(c) == pc[c] = "calling" /\ pc'[c] = "dispatched"
ReturnStep(c) == pc[c] = "awaiting" /\ pc'[c] = "done"
IsTarget(c) == request[c].method = RequestType
InWindow(age) == age >= 0 /\ age < MaxCacheAge

\* C5 as stated, for two calls dispatched within one tick (always less than a
\* TTL): when the first target-method call was forwarded, a second one with the
\* same parameters does not invoke the inner service.
C5_Original ==
    [][\A c \in Calls :
         CallStep(c) /\ IsTarget(c) /\ (\E d \in issuedNow : request[d] = request[c])
           => forwarded'[c] = 0]_vars

\* C5 amended: a target-method call dispatched less than one TTL after a
\* forwarded call with the same parameters returned a success (the latest
\* such call) gets that call's response, and the inner service is not invoked.
C5_ServedFromCache ==
    [][\A c \in Calls :
         /\ CallStep(c) /\ IsTarget(c) /\ InWindow(keyHist[request[c].params].stored)
              => /\ forwarded'[c] = 0
                 /\ fut'[c] = ReadyFut(Ok(keyHist[request[c].params].value))
         /\ ReturnStep(c) /\ fut[c].kind = "ready"
              => resp'[c] = fut[c].result]_vars

\* A target-method call has been answered inside the window without a forward.
C5_Witness ==
    \E c \in Calls : /\ pc[c] = "dispatched" /\ IsTarget(c)
                     /\ InWindow(keyHist[request[c].params].stored)
                     /\ forwarded[c] = 0 /\ fut[c].kind = "ready"

\* C6: once the TTL has elapsed since the entry was stored, the next call with
\* those parameters is forwarded; when the forward returns a value, that value
\* is the entry, and a call dispatched then is served it.
C6_RefreshAfterTtl ==
    [][\A c \in Calls :
         /\ CallStep(c) /\ IsTarget(c)
                        /\ keyHist[request[c].params].stored >= MaxCacheAge
              => forwarded'[c] = 1 /\ fut'[c].kind = "cached"
         /\ ReturnStep(c) /\ IsTarget(c) /\ forwarded[c] > 0 /\ resp'[c].ok
              => /\ cached_values'[request[c].params] = CacheEntry(resp'[c].val)
                 /\ ResponseCacheCall(request[c], cached_values', TerminalCall(request[c]))
                      = Dispatch(ReadyFut(resp'[c]), 0)]_vars

\* A call found an entry older than the TTL and was forwarded.
C6_Witness ==
    \E c \in Calls : /\ pc[c] = "dispatched" /\ IsTarget(c)
                     /\ cached_values[request[c].params] # NoEntry
                     /\ cached_values[request[c].params].at >= MaxCacheAge
                     /\ forwarded[c] = 1

\* C10: the inner service is called if and only if f returns None; when f
\* returns Some(result), the future is ready with that result, which is what
\* the caller gets.
C10_EarlyReturn ==
    [][\A c \in Calls :
         /\ CallStep(c)
              => /\ forwarded'[c] = 1 <=> EarlyReturnF(request[c]) = NoResult
                 /\ forwarded'[c] = 0 <=> EarlyReturnF(request[c]) # NoResult
                 /\ EarlyReturnF(request[c]) # NoResult
                      => fut'[c] = ReadyFut(EarlyReturnF(request[c]))
         /\ ReturnStep(c) /\ EarlyReturnF(request[c]) # NoResult
              => resp'[c] = EarlyReturnF(request[c])]_vars

\* f returned Some(Err(..)): the future is ready with it, nothing was forwarded.
C10_Witness ==
    \E c \in Calls : /\ pc[c] = "awaiting" /\ forwarded[c] = 0
                     /\ fut[c].kind = "ready" /\ ~fut[c].result.ok

\* Steps of the retry future of call c, and its state when it has yielded a
\* 429 as the result of the call.
RetryStep(c) == http[c].state = "Called" /\ http'[c].state = "Waiting"
WakeStep(c) == http[c].state = "Waiting" /\ http'[c].state = "Called"
Throttled(c) ==
    /\ http[c].state = "Resolved"
    /\ http[c].response.ok
    /\ http[c].response.status = TooManyRequests

\* C7: a call whose policy was created with budget NumRetries has made one
\* attempt plus one per retry used (the retry it sleeps on is not yet made),
\* and never uses more than the budget; a 429 becomes the result of the call
\* only when NumRetries retries (NumRetries + 1 attempts) have been made, and
\* the caller's outcome is then the one the same body gives under status 200:
\* no error kind of its own.
C7_BudgetThenSurface ==
    /\ [](\A c \in Calls :
            /\ http[c].state \in {"Called", "Waiting"}
                 => /\ http[c].retry.retries_remaining >= 0
                    /\ http[c].attempts + http[c].retry.retries_remaining
                         = IF http[c].state = "Waiting" THEN NumRetries ELSE NumRetries + 1
            /\ http[c].state = "Resolved" => http[c].attempts <= NumRetries + 1
            /\ Throttled(c) => http[c].attempts = NumRetries + 1)
    /\ [][\A c \in Calls :
            Throttled(c) /\ ReturnStep(c)
              => resp'[c] = SendMapErr(
                       ParseResponseFuturePoll(
                           HttpResponse(200, NoHeader, http[c].response.body)),
                       request[c].method)]_vars

\* The last attempt the budget allows has been answered with a 429, which is
\* the result of the call.
C7_Witness ==
    \E c \in Calls : Throttled(c) /\ http[c].attempts = NumRetries + 1

\* C8: a 429 is the result of a call only when its budget is used up, so with
\* a budget of at least 1 a first 429 is retried; after a 429 that carried
\* Retry-After: 2 the next attempt goes out no sooner than 2 seconds after the
\* 429 was handled; a 200 with a result completes the call with that result.
C8_RetryAfterHonoured ==
    /\ [](\A c \in Calls : Throttled(c) /\ NumRetries >= 1 => http[c].attempts > 1)
    /\ [][\A c \in Calls :
            /\ RetryStep(c) => http'[c].waited = 0
            /\ WakeStep(c) /\ http[c].after = Header(<<"2">>)
                 => http[c].waited >= Ticks(2 * MsPerSec)
            /\ ReturnStep(c) /\ http[c].response.ok /\ IsSuccess(http[c].response.status)
                             /\ http[c].response.body.json /\ ~http[c].response.body.error
                 => resp'[c] = Ok(http[c].response.body.result)]_vars

\* The second attempt of a call has gone out after a pause of 2 seconds (the
\* time its policy has recorded as rate limited).
C8_Witness ==
    \E c \in Calls : /\ http[c].state = "Called"
                     /\ http[c].attempts = 2
                     /\ http[c].retry.rate_limited_time = 2 * MsPerSec

\* C9 as stated: a retry made for one call takes one retry away from the
\* policy the pipeline holds, which is what the next call starts with.
C9_Original ==
    [][\A c \in Calls :
         /\ RetryStep(c)
              => policy'.retries_remaining = policy.retries_remaining - 1
         /\ CallStep(c) => http'[c].retry = policy']_vars

\* C9 amended: the policy the pipeline holds is never mutated; every call
\* starts with a copy of it, that is with the full budget, and a retry changes
\* only the copy of the call it is made for.
C9_BudgetPerCall ==
    /\ [](policy = TooManyRequestsRetry(NumRetries))
    /\ [][\A c \in Calls :
            /\ CallStep(c) => http'[c].retry = TooManyRequestsRetry(NumRetries)
            /\ RetryStep(c)
                 => /\ http'[c].retry.retries_remaining
                         = http[c].retry.retries_remaining - 1
                    /\ \A d \in Calls \ {c} : http'[d] = http[d]]_vars

\* While one call is asleep with its budget used up, another one is
\* dispatched with the full budget.
C9_Witness ==
    \E c, d \in Calls : /\ http[c].state = "Waiting"
                         /\ http[c].retry.retries_remaining = 0
                         /\ pc[d] = "dispatched"
                         /\ http[d].retry.retries_remaining = NumRetries

\* The parser has completed for a response with a JSON body.
Parsed == input \in ParseInputs /\ output # NoResult
Malformed(b) == b.json /\ ~b.error /\ ~b.has_result

\* C11 as stated: a JSON body with neither a result field nor an error object
\* (an object without them, null, a value of another shape) gives the caller
\* an error of the malformed-response/request kind: no success, no panic.
C11_MalformedIsError ==
    Parsed /\ input.ok /\ Malformed(input.body)
        => ~output.ok /\ output.err.kind = "RpcRequestError"

\* C11, what the code does: such a body that is an object or null is a
\* success with the value null, one of another shape makes the parser panic;
\* the request error with diagnostic text is what an error object without
\* code or message gives.
C11_MalformedIsNull ==
    Parsed /\ input.ok /\ input.body.json
        => /\ Malformed(input.body) /\ input.body.shape \in {"object", "null"}
                => output = Ok(JsonNull)
           /\ Malformed(input.body) /\ input.body.shape \notin {"object", "null"}
                => output = Panic
           /\ output.err.kind = "RpcRequestError"
                <=> input.body.error /\ (~input.body.has_code \/ input.body.message = None)

\* An object with neither field has been parsed: the outcome is Ok(null).
C11_Witness ==
    /\ Parsed /\ input.ok
    /\ input.body.shape = "object" /\ ~input.body.error_other
    /\ Malformed(input.body) /\ output = Ok(JsonNull)

\* C18 as stated: for a body that parsed as JSON, a protocol error with the
\* body's code and message exactly when the error field is an object, and
\* else the value of the result field as success.
C18_Original ==
    Parsed /\ input.ok /\ input.body.json
        => IF input.body.error
           THEN /\ ~output.ok /\ output.err.kind = "RpcResponseError"
                /\ output.err.code = input.body.code
                /\ output.err.text = input.body.message
           ELSE output = Ok(input.body.result)

\* C18 amended: for a body that parsed as JSON, whatever the HTTP status: a
\* protocol error with the body's code and message exactly when the error
\* field is an object that has a code and a message (a result field next to it
\* is ignored); a request error with diagnostic text when the error object
\* lacks one of them; and else, for an object or null, the value of the result
\* field (null when there is none) as success, while a JSON value of any other
\* shape makes the parser panic (C11).
C18_ParsedByBody ==
    Parsed /\ input.ok /\ input.body.json
        => LET b == input.body
               wellFormed == b.error /\ b.has_code /\ b.message # None
           IN  /\ wellFormed
                    => /\ ~output.ok
                       /\ output.err.code = b.code /\ output.err.text = b.message
               /\ b.error /\ ~wellFormed
                    => ~output.ok /\ output.err.kind = "RpcRequestError"
               /\ ~b.error /\ b.shape \in {"object", "null"}
                    => output = Ok(IF b.has_result THEN b.result ELSE JsonNull)
               /\ ~b.error /\ b.shape \notin {"object", "null"} => output = Panic
               /\ output.err.kind = "RpcResponseError" <=> wellFormed

\* A 'method not found' reply that also carried a result has been parsed: the
\* outcome is the protocol error with code -32601 and that message.
C18_Witness ==
    /\ Parsed /\ input.ok /\ input.body.has_result /\ input.body.result # JsonNull
    /\ output = Err([kind |-> "RpcResponseError", code |-> MethodNotFound,
                     text |-> "Method not found", request |-> None, data |-> "Empty"])

\* C12: when the dispatched future fails, the caller gets an error, never a
\* value: the future's error itself when that is a ClientError (raised by the
\* predicate of a layer or by the terminal function), and else a Custom
\* ClientError with the error's text, tagged with the method of the request.
C12_ErrorMapping ==
    [][\A c \in Calls :
         ReturnStep(c)
           => /\ fut[c].kind = "ready" => resp'[c] = fut[c].result
              /\ fut[c].kind = "ready" /\ ~fut[c].result.ok
                   => fut[c].result.err.kind = "ClientError"
              /\ fut[c].kind = "inner"
                   => \E r \in TerminalResults(request[c]) :
                        /\ resp'[c].ok <=> r.ok
                        /\ r.ok => resp'[c] = r
                        /\ ~r.ok /\ r.err.kind = "ClientError" => resp'[c] = r
                        /\ ~r.ok /\ r.err.kind # "ClientError"
                             => /\ resp'[c].err.kind = "Custom"
                                /\ resp'[c].err.text = r.err.text
                                /\ resp'[c].err.request = request[c].method
              /\ ~resp'[c].ok
                   => /\ resp'[c].val = -1
                      /\ resp'[c].err.kind \in {"ClientError", "Custom"}]_vars

\* One call got an error of another type wrapped as Custom and tagged with
\* its method, another one got the pipeline's ClientError.
C12_Witness ==
    \E c, d \in Calls :
        /\ pc[c] = "done" /\ resp[c].err.kind = "Custom"
        /\ resp[c].err.text = "bar" /\ resp[c].err.request \in Methods
        /\ pc[d] = "done" /\ resp[d].err.kind = "ClientError"

\* C15: when the readiness await resolves to an error, send goes on as when
\* it resolves to Ok: it calls the pipeline with the request (still holding
\* the lock), releases the lock, and returns what the dispatched future
\* yields; no outcome is produced by the readiness step.
C15_ReadinessErrorLogged ==
    [][\A c \in Calls :
         /\ pc[c] = "polling" /\ pc'[c] # "polling"
              => pc'[c] = "calling" /\ resp'[c] = NoResult /\ lock' = c
         /\ pc[c] = "calling" /\ readyRes[c] = "err" /\ pc'[c] # "calling"
              => /\ pc'[c] = "dispatched" /\ lock' = c
                 /\ fut'[c] # NoFut
                 /\ forwarded'[c] = 1 <=> EarlyReturnF(request[c]) = NoResult
         /\ pc[c] = "dispatched" /\ readyRes[c] = "err" /\ pc'[c] # "dispatched"
              => pc'[c] = "awaiting" /\ lock' = 0 /\ fut'[c] = fut[c]
         /\ resp'[c] # resp[c] /\ resp'[c] # NoResult
              => /\ ReturnStep(c)
                 /\ fut[c].kind = "ready" => resp'[c] = fut[c].result
                 /\ fut[c].kind = "inner"
                      => \E r \in TerminalResults(request[c]) :
                           resp'[c] = SendMapErr(r, request[c].method)]_vars

\* Readiness resolved to an error and the call was made all the same; the
\* lock is still held, about to be released.
C15_Witness ==
    \E c \in Calls : /\ pc[c] = "dispatched" /\ readyRes[c] = "err"
                     /\ lock = c /\ fut[c].kind = "inner" /\ forwarded[c] = 1

\* C19: a request whose method is not the cache's request_type is forwarded
\* to the inner service whatever the cache holds for its parameters, gets the
\* inner service's own future (not a cached value), and neither its dispatch
\* nor its completion, with a value or with an error, changes the cache map.
C19_OtherMethodsBypass ==
    [][\A c \in Calls :
         /\ CallStep(c) /\ ~IsTarget(c)
              => /\ forwarded'[c] = 1
                 /\ fut'[c] = InnerFut
                 /\ cached_values' = cached_values
         /\ ReturnStep(c) /\ ~IsTarget(c)
              => /\ cached_values' = cached_values
                 /\ forwarded[c] = 1]_vars

\* A request of another method is in flight, forwarded, although the cache
\* holds a fresh entry for its parameters.
C19_Witness ==
    \E c \in Calls : /\ pc[c] = "awaiting" /\ request[c].method # RequestType
                     /\ forwarded[c] = 1 /\ fut[c] = InnerFut
                     /\ CacheFresh(cached_values, request[c].params)

\* C20: when a forwarded target-method request fails, the caller gets the
\* error and the cache map stays exactly as it was: a missing entry stays
\* missing, an existing one keeps its value and its timestamp.
C20_FailureNotCached ==
    [][\A c \in Calls :
         ReturnStep(c) /\ IsTarget(c) /\ forwarded[c] > 0
           => /\ ~resp'[c].ok => cached_values' = cached_values
              /\ ~resp'[c].ok
                   => resp'[c].err.kind \in {"ClientError", "Custom"}]_vars

\* A forwarded target-method request has failed (its error carries the
\* method) while every parameter value has a stale entry, which is kept.
C20_Witness ==
    \E c \in Calls :
        /\ pc[c] = "done" /\ ~resp[c].ok
        /\ resp[c].err.kind = "Custom" /\ resp[c].err.request = RequestType
        /\ \A p \in Params : /\ cached_values[p] # NoEntry
                              /\ cached_values[p].at >= MaxCacheAge

\* Invocations of send that are in progress.
InProgress == {c \in Calls : pc[c] \notin Over}

\* C16: the statistics count a call as started before anything else happens
\* in send and as completed on every way out (a value, an error, a panic):
\* the calls counted as outstanding are exactly those in progress, so when no
\* send is in progress started and completed calls are equal in number; the
\* count moves only when a call enters or leaves send.
C16_StatsScoped ==
    /\ [](stats.outstanding = Cardinality(InProgress))
    /\ [](InProgress = {} => stats.outstanding = 0)
    /\ [][\A c \in Calls :
            /\ pc[c] \in Over /\ pc'[c] \notin Over
                 => stats'.outstanding = stats.outstanding + 1 /\ pc'[c] = "locking"
            /\ pc[c] \notin Over /\ pc'[c] \in Over
                 => stats'.outstanding = stats.outstanding - 1]_vars

\* Calls have left send in both ways, one with an error and one with a panic,
\* and none is outstanding.
C16_Witness ==
    /\ stats.outstanding = 0
    /\ \E c, d \in Calls : /\ pc[c] = "done" /\ ~resp[c].ok
                             /\ pc[d] = "panicked"

\* Position of a stage in the stack, counted from the caller.
Position(stage) == CHOOSE i \in 1..Len(layers.stack) : layers.stack[i] = stage

\* The early-return layer answers the request itself (a value or a rejection).
Answered(req) == Has(layers.stack, "early_return") /\ EarlyReturnF(req) # NoResult

\* A stage of the stack sees the request: no stage nearer the caller answers it.
Reaches(stage, req) ==
    /\ Has(layers.stack, stage)
    /\ Answered(req) => Position(stage) < Position("early_return")

\* C13: layers execute in the order they were added.  The stack starts with
\* the layers as added, first-added nearest the caller, and on the HTTP path
\* ends with the parser, the request builder, the 429 retry if there is one,
\* and the transport.  When a call is dispatched, a stage sees the request
\* exactly when no layer nearer the caller answered it: the rate limiter
\* counts it, the service function is invoked, the HTTP service takes a
\* request id and calls the transport; a request answered by the early-return
\* layer comes back as that layer's ready answer.
C13_LayerOrder ==
    /\ [](\A i \in 1..Len(input.added) : layers.stack[i] = input.added[i])
    /\ [](LET rest == SubSeq(layers.stack, Len(input.added) + 1, Len(layers.stack))
          IN  IF input.terminal = "http"
              THEN rest \in {<<"ParseResponseBody", "HttpRequestBuilder", "Retry", "reqwest">>,
                             <<"ParseResponseBody", "HttpRequestBuilder", "reqwest">>}
              ELSE rest = <<"service_fn">>)
    /\ [][\A c \in Calls :
            pc[c] = "calling" /\ pc'[c] = "dispatched" =>
               /\ (limiter' # limiter) <=> Reaches("rate_limit", request[c])
               /\ (forwarded'[c] = forwarded[c] + 1) <=> Reaches("service_fn", request[c])
               /\ (http'[c].state = "Called" /\ request_id' # request_id)
                     <=> Reaches("ParseResponseBody", request[c])
               /\ (fut'[c] = ReadyFut(EarlyReturnF(request[c]))) <=> Answered(request[c])]_vars

\* The early-return layer was added before the rate limiter; an earlier
\* request went through both, and a request the early-return layer answered
\* has been dispatched without reaching the limiter or the service function.
C13_Witness ==
    /\ input.added = <<"early_return", "rate_limit">>
    /\ limiter # LimiterReady(0, RateNum)
    /\ sinceCall > 0
    /\ \E c \in Calls : /\ pc[c] = "dispatched"
                         /\ fut[c].kind = "ready"
                         /\ forwarded[c] = 0

\* C14: an HTTP client built with retry budget 0 has no retry stage: its
\* pipeline holds no policy, no call ever sleeps or sends a second attempt,
\* and whatever the transport answers to the one attempt, a 429 included, is
\* handed to the parser.  A client built with a budget n > 0 has the retry
\* stage between the request builder and the transport, with a policy of
\* budget n that every call starts with; a builder left at its default gives
\* the budget 5.
C14_RetryStageByBudget ==
    /\ [](RetryLayer(HttpClientBuilder(<<>>).retry_429) = TooManyRequestsRetry(5))
    /\ [](input.retry_429 = 0 =>
            /\ policy = NoPolicy
            /\ layers.stack = <<"ParseResponseBody", "HttpRequestBuilder", "reqwest">>
            /\ \A c \in Calls : /\ http[c].state # "Waiting"
                                 /\ http[c].sleep = 0
                                 /\ http[c].attempts <= 1)
    /\ [](input.retry_429 > 0 =>
            /\ policy = TooManyRequestsRetry(input.retry_429)
            /\ layers.stack = <<"ParseResponseBody", "HttpRequestBuilder", "Retry", "reqwest">>
            /\ \A c \in Calls :
                  http[c].state = "Called" /\ http[c].attempts = 1
                     => http[c].retry.retries_remaining = input.retry_429)
    /\ [][\A c \in Calls :
            input.retry_429 = 0 /\ http[c].state = "Called" /\ http'[c] # http[c]
               => /\ http'[c].state = "Resolved"
                  /\ http'[c].attempts = 1
                  /\ http'[c].response \in TransportResults]_vars

\* On a client built with budget 0 the only attempt of a call was answered
\* 429 and the response has gone to the parser; another call has returned.
C14_Witness ==
    /\ input.retry_429 = 0
    /\ \E c, e \in Calls :
          /\ http[c].state = "Resolved"
          /\ http[c].attempts = 1
          /\ http[c].response.ok
          /\ http[c].response.status = TooManyRequests
          /\ pc[e] = "done"

\* C17 (as claimed): the client that is returned uses the commitment given to
\* the builder, and finalized when none was given.
C17_CommitmentPassedThrough ==
    output.commitment = IF input.commitment = None THEN Finalized ELSE input.commitment

\* C17 (as the code behaves): the commitment given to the builder is dropped;
\* the client that is returned always uses the default commitment, finalized.
C17_CommitmentDropped ==
    output.commitment = Finalized

\* A client built with commitment confirmed uses finalized, and a call on it
\* has returned.
C17_Witness ==
    /\ input.commitment = "confirmed"
    /\ output.commitment = Finalized
    /\ \E c \in Calls : pc[c] = "done" /\ resp[c].ok

\* C21: the cache does not merge concurrent requests.  A target-method call
\* dispatched while no fresh entry exists for its parameters is forwarded to
\* the inner service although another call with the same parameters has been
\* forwarded and has not completed.
C21_NoSingleFlight ==
    [][\A c \in Calls :
         /\ CallStep(c) /\ IsTarget(c)
         /\ ~CacheFresh(cached_values, request[c].params)
         /\ \E d \in Calls \ {c} : /\ request[d] = request[c]
                                    /\ forwarded[d] > 0
                                    /\ pc[d] \in {"dispatched", "awaiting"}
         => forwarded'[c] = 1 /\ fut'[c] = CachedResponseFuture(request[c])]_vars

\* Two calls of the target method with the same parameters are awaiting the
\* inner service at once.
C21_Witness ==
    \E c, d \in Calls :
        /\ c # d
        /\ request[c] = request[d] /\ IsTarget(c)
        /\ pc[c] = "awaiting" /\ pc[d] = "awaiting"
        /\ forwarded[c] = 1 /\ forwarded[d] = 1
        /\ fut[c].kind = "cached" /\ fut[d].kind = "cached"

\* C28: when a forwarded target-method call with parameters p returns the
\* value v, the caller gets v and the entry for p becomes (v, now) whatever
\* it was before, while every other entry stays as it is; and no step of the
\* program takes an entry out of the map.
C28_StoreFrame ==
    [][/\ \A c \in Calls :
            ReturnStep(c) /\ fut[c].kind = "cached" /\ resp'[c].ok
               => cached_values' =
                     [cached_values EXCEPT ![request[c].params] =
                                               [response |-> resp'[c].val, at |-> 0]]
       /\ \A p \in Params :
            cached_values[p] # NoEntry => cached_values'[p] # NoEntry]_vars

\* A forwarded call has just returned a value that is now the entry of its
\* parameters, a value other than the one stored for the other parameters
\* some time ago.
C28_Witness ==
    \E c \in Calls : \E p, q \in Params :
        /\ pc[c] = "done" /\ resp[c].ok
        /\ p # q
        /\ cached_values[p] = CacheEntry(resp[c].val)
        /\ cached_values[q] # NoEntry
        /\ cached_values[q].at > 0
        /\ cached_values[q].response # resp[c].val

\* C29: a target-method call is answered from the cache exactly when an entry
\* for its parameters exists whose age at the lookup is strictly less than the
\* TTL; it then gets the entry's response, the inner service is not invoked
\* and the map, timestamps included, stays as it is.  An entry as old as the
\* TTL or older is not served, so with a TTL of zero every call is forwarded.
C29_ServedIffFresh ==
    [][\A c \in Calls :
         CallStep(c) /\ IsTarget(c) =>
            LET entry == cached_values[request[c].params]
                served == fut'[c].kind = "ready" /\ forwarded'[c] = 0
            IN  /\ served <=> (entry # NoEntry /\ entry.at < layers.max_cache_age)
                /\ served => /\ fut'[c].result = Ok(entry.response)
                             /\ cached_values' = cached_values
                /\ ~served => forwarded'[c] = 1 /\ fut'[c].kind = "cached"
                /\ layers.max_cache_age = 0 => ~served]_vars

\* With a TTL of zero a call has been forwarded although an entry for its
\* parameters is in the map.
C29_Witness ==
    /\ layers.max_cache_age = 0
    /\ \E c \in Calls : /\ pc[c] = "dispatched" /\ IsTarget(c)
                         /\ cached_values[request[c].params] # NoEntry
                         /\ forwarded[c] = 1

\* C23: the policy signals a retry exactly when the attempt's result is a
\* response (no transport error) with status 429 and the policy has retries
\* left; a 2xx response, another status, a transport error and a 429 with
\* nothing left all signal no retry.
C23_RetryIff429 ==
    output # NoResult =>
        (output.retry <=> /\ input.result.ok
                          /\ input.result.status = 429
                          /\ input.policy.retries_remaining > 0)

\* A 429 was given to a policy with nothing left, and it signalled no retry.
C23_Witness ==
    /\ output # NoResult /\ ~output.retry
    /\ input.result.ok /\ input.result.status = 429
    /\ input.policy.retries_remaining = 0

\* C24: when a retry is signalled the pause is v seconds if the response has
\* a Retry-After header that reads as an integer v from 0 to 119, and 500 ms
\* otherwise: no header, a value that is no text, no integer (empty, a date,
\* a negative number), or 120.
C24_BackoffFromHeader ==
    output # NoResult /\ output.retry =>
        LET h == input.result.retry_after
            v == IF h = Header(<<"0">>) THEN 0
                 ELSE IF h = Header(<<"2">>) THEN 2
                 ELSE IF h = Header(<<"+", "5">>) THEN 5
                 ELSE IF h = Header(<<"1", "1", "9">>) THEN 119
                 ELSE -1
        IN  output.sleep = IF v >= 0 THEN v * 1000 ELSE 500

\* A retry was signalled for a 429 with Retry-After: 119, with a pause of 119
\* seconds.
C24_Witness ==
    /\ output # NoResult /\ output.retry
    /\ input.result.retry_after = Header(<<"1", "1", "9">>)
    /\ output.sleep = 119 * MsPerSec

\* C25: a retry signal takes exactly one from retries_remaining and adds
\* exactly the pause of this retry to the accumulated time; an outcome
\* without retry leaves the policy as it was; retries_remaining never goes
\* below zero and never grows.
C25_PolicyAccounting ==
    output # NoResult =>
        /\ output.retry =>
              /\ output.policy.retries_remaining = input.policy.retries_remaining - 1
              /\ output.policy.rate_limited_time
                    = input.policy.rate_limited_time + output.sleep
        /\ ~output.retry => output.policy = input.policy /\ output.sleep = 0
        /\ output.policy.retries_remaining >= 0
        /\ output.policy.retries_remaining <= input.policy.retries_remaining

\* A policy that had already paused 500 ms granted its last retry with a pause
\* of 2 seconds.
C25_Witness ==
    /\ output # NoResult /\ output.retry
    /\ input.policy = [retries_remaining |-> 1, rate_limited_time |-> DefaultBackoffMs]
    /\ output.policy = [retries_remaining |-> 0,
                        rate_limited_time |-> DefaultBackoffMs + 2 * MsPerSec]

\* C26: a call through a retry stage made with budget N makes at most N + 1
\* attempts.  A retry is granted only to a call that has made at most N
\* attempts and takes one from what the call has left; the attempt after the
\* pause is one more; and the answer to an attempt becomes the result of the
\* call unless it is a 429 and fewer than N + 1 attempts were made.
C26_BoundedAttempts ==
    /\ [](\A c \in Calls :
            http[c].state # None
               => http[c].attempts >= 1 /\ http[c].attempts <= input.retry_429 + 1)
    /\ [][\A c \in Calls :
            /\ RetryStep(c)
                 => /\ http[c].attempts <= input.retry_429
                    /\ http'[c].retry.retries_remaining
                          = input.retry_429 - http[c].attempts
            /\ WakeStep(c) => http'[c].attempts = http[c].attempts + 1
            /\ http[c].state = "Called" /\ http'[c].state = "Resolved"
                 => /\ http'[c].attempts = http[c].attempts
                    /\ \/ ~http'[c].response.ok
                       \/ http'[c].response.status # 429
                       \/ http[c].attempts = input.retry_429 + 1]_vars

\* A call used its whole budget on 429 answers and its last attempt was
\* answered 200.
C26_Witness ==
    /\ input.retry_429 > 0
    /\ \E c \in Calls : /\ http[c].state = "Resolved"
                         /\ http[c].attempts = input.retry_429 + 1
                         /\ http[c].response.ok
                         /\ http[c].response.status = 200

\* C30: for an error object with a code and a message the outcome is the
\* protocol error whose data is the simulation result exactly when the code
\* is the preflight-failure code and the data decodes as one, the slots-behind
\* value exactly when the code is the unhealthy-node code and the data decodes
\* as one, and empty in every other case; an error object without a code or
\* without a message gives a request error with diagnostic text.
C30_ErrorData ==
    Parsed /\ input.ok /\ input.body.json /\ input.body.error
        => LET b == input.body
               simulation == b.code = -32002 /\ b.data \in {"simulation", "both"}
               slots == b.code = -32005 /\ b.data \in {"slots_behind", "both"}
           IN  IF b.has_code /\ b.message # None
               THEN /\ ~output.ok /\ output.err.kind = "RpcResponseError"
                    /\ output.err.data = "SendTransactionPreflightFailure" <=> simulation
                    /\ output.err.data = "NodeUnhealthy" <=> slots
                    /\ output.err.data = "Empty" <=> ~simulation /\ ~slots
               ELSE /\ ~output.ok /\ output.err.kind = "RpcRequestError"
                    /\ output.err.text = "Failed to deserialize RPC error response"
                    /\ output.err.data = None

\* An error with the unhealthy-node code whose data would also decode as a
\* simulation result has been parsed: its data is the slots-behind value.
C30_Witness ==
    /\ Parsed /\ input.ok
    /\ input.body.error /\ input.body.code = NodeUnhealthy /\ input.body.data = "both"
    /\ output.err.kind = "RpcResponseError"
    /\ output.err.data = "NodeUnhealthy"

\* C22: the request builder's counter starts at 0, only a dispatch through
\* the builder changes it, and each dispatch gives the call the counter's
\* value as id and adds one to the counter, going from the highest value back
\* to 0.  So the request that n < 2^IdBits requests came after has the id n + 1
\* below the counter (modulo 2^IdBits), and two requests in flight have the
\* same id only when 2^IdBits or more requests came after the older one.
C22_IdsInOrder ==
    /\ request_id = 0
    /\ [][\A c \in Calls :
            IF \E d \in Calls : CallStep(d)
            THEN CallStep(c) => /\ wire'[c].id = request_id
                                /\ request_id' = IF request_id = 2 ^ IdBits - 1
                                                  THEN 0
                                                  ELSE request_id + 1
            ELSE request_id' = request_id]_vars
    /\ [](\A c \in Calls :
            wire[c].id >= 0 /\ wire[c].newer < 2 ^ IdBits
               => wire[c].id = (request_id + 2 ^ IdBits - 1 - wire[c].newer) % (2 ^ IdBits))
    /\ [](\A c, d \in Calls :
            c # d /\ wire[c].id >= 0 /\ wire[c].id = wire[d].id
               => wire[c].newer = 2 ^ IdBits \/ wire[d].newer = 2 ^ IdBits)

\* The counter has gone round: a request given the highest id is in flight,
\* and the request dispatched after it has the id 0.
C22_Witness ==
    \E c, d \in Calls :
        /\ wire[c].id = 2 ^ IdBits - 1 /\ wire[c].newer = 1
        /\ wire[d].id = 0 /\ wire[d].newer = 0
        /\ request_id = 1

\* C27: clone_request always yields a request, and that request equals the
\* original in method, URL, headers, timeout and body.
C27_CloneIdentical ==
    output # NoResult => output.some /\ output.request = input

\* C27, as the code has it: clone_request always yields a request with the
\* method, URL, headers and timeout of the original; its body is the
\* original's when that is absent or held in memory, and absent when the
\* original's body is a stream.  A clone of the clone equals the clone.
C27_CloneKeepsBytesOnly ==
    output # NoResult =>
        /\ output.some
        /\ output.request.method = input.method
        /\ output.request.url = input.url
        /\ output.request.headers = input.headers
        /\ output.request.timeout = input.timeout
        /\ input.body.kind # "stream" => output.request.body = input.body
        /\ input.body.kind = "stream" => output.request.body = NoBody
        /\ CloneRequest(output.request) = output

\* A POST request with a streamed body "{}" was cloned into one without body.
C27_Witness ==
    /\ output # NoResult
    /\ input.method = "POST"
    /\ input.body = [kind |-> "stream", bytes |-> "{}"]
    /\ output.request.body = NoBody

\* C31: when the transport has failed the parser completes with the
\* transport's error, and when the body of a response cannot be decoded as
\* JSON it completes with the decoding error, whatever the status; neither
\* outcome is a value.
C31_FailuresPropagate ==
    Parsed =>
        /\ ~input.ok => output = Err(OtherError("error sending request"))
        /\ input.ok /\ ~input.body.json
              => output = Err(OtherError("error decoding response body"))
        /\ ~input.ok \/ ~input.body.json => ~output.ok /\ output.val = -1

\* A response with status 200 whose body is no JSON was parsed into the
\* decoding error.
C31_Witness ==
    /\ Parsed
    /\ input.ok /\ input.status = 200 /\ ~input.body.json
    /\ output = Err(OtherError("error decoding response body"))

\* C32: the sender imposes no order on completions.  A call that awaits its
\* future can take its next step towards returning whatever the other calls
\* are doing: the transport can answer it while it is with the transport, and
\* it can return its result once the response is there.  (That a call
\* dispatched later returns first is the state C32_Witness.)
C32_NoCompletionOrder ==
    \A c \in Calls :
        /\ pc[c] = "awaiting" /\ http[c].state = "Called" => ENABLED HttpResolve(c)
        /\ pc[c] = "awaiting" /\ http[c].state = "Resolved" => ENABLED HttpComplete(c)

\* A call has returned a value to its caller while the call dispatched before
\* it is still with the transport: one request was given an id after that
\* call's request, and no other request is in flight.
C32_Witness ==
    \E c, d \in Calls :
        /\ c # d
        /\ pc[c] = "awaiting" /\ http[c].state = "Called"
        /\ wire[c].id >= 0 /\ wire[c].newer = 1
        /\ \A e \in Calls \ {c} : wire[e].id < 0
        /\ pc[d] = "done" /\ resp[d].ok

\* C33: in the HTTP stack the retry stage, when there is one, is further from
\* the caller than the request builder.  So the counter moves only when a call
\* is dispatched, by one, and the id of a call's request stays what the
\* dispatch gave it through every retry and every new attempt until the call
\* returns: the attempts of a call carry one id, and the next call dispatched
\* gets the next id however many attempts were made meanwhile.
C33_IdPerCall ==
    /\ [](Has(layers.stack, "Retry")
             => Position("HttpRequestBuilder") < Position("Retry"))
    /\ [][\A c \in Calls :
            /\ RetryStep(c) \/ WakeStep(c)
                  => request_id' = request_id /\ wire'[c] = wire[c]
            /\ wire[c].id >= 0 /\ pc'[c] = "awaiting" => wire'[c].id = wire[c].id
            /\ CallStep(c) => /\ wire'[c].id = request_id
                              /\ request_id' = (request_id + 1) % (2 ^ IdBits)
            /\ request_id' # request_id => \E d \in Calls : CallStep(d)]_vars

\* The first call is at its second attempt with the id 0 it was given, and the
\* call dispatched after it has the id 1.
C33_Witness ==
    \E c, d \in Calls :
        /\ http[c].state = "Called" /\ http[c].attempts = 2
        /\ wire[c].id = 0 /\ wire[c].newer = 1
        /\ wire[d].id = 1 /\ wire[d].newer = 0

\* C34: with the early-return layer or the cache nearer the caller than the
\* rate limiter, no request gets past readiness while the limiter is pending,
\* a request the layer will answer itself no more than another; and when such
\* a request is dispatched the inner service is not invoked and the limiter
\* is left as it was.
C34_ShortCircuitWaits ==
    /\ [](layers.rate_limit /\ layers.stack[1] # "rate_limit")
    /\ [][\A c \in Calls :
            LET short == \/ Answered(request[c])
                         \/ /\ layers.cache /\ IsTarget(c)
                            /\ CacheFresh(cached_values, request[c].params)
            IN  /\ pc[c] = "polling" /\ pc'[c] # "polling" => ~RateLimitPending(limiter)
                /\ CallStep(c) /\ short => /\ forwarded'[c] = 0
                                           /\ limiter' = limiter
                                           /\ fut'[c].kind = "ready"]_vars

\* A request that the cache will answer from a fresh entry waits for
\* readiness while the rate limiter is pending.
C34_Witness ==
    \E c \in Calls :
        /\ pc[c] = "polling"
        /\ layers.stack[1] = "cache" /\ IsTarget(c)
        /\ CacheFresh(cached_values, request[c].params)
        /\ RateLimitPending(limiter)

\* C35: the map has an entry for parameters p exactly when the inner service
\* has returned a value to a forwarded target-method request with parameters
\* p, and the entry holds the latest such value with the age of that return;
\* so what a call is served from the cache is a value the inner service
\* returned for that method and those parameters.
C35_EntriesAreResponses ==
    /\ [](\A p \in Params :
            /\ cached_values[p] = NoEntry <=> keyHist[p] = NoHist
            /\ cached_values[p].response = keyHist[p].value
            /\ cached_values[p].at = keyHist[p].stored)
    /\ [][\A c \in Calls :
            CallStep(c) /\ forwarded'[c] = 0
               => /\ IsTarget(c)
                  /\ fut'[c] = ReadyFut(Ok(keyHist[request[c].params].value))]_vars

\* A call is served the value 60 that the inner service returned for its
\* parameters, while the entry of the other parameters holds another value.
C35_Witness ==
    \E c \in Calls : \E q \in Params :
        /\ pc[c] = "dispatched" /\ forwarded[c] = 0
        /\ fut[c] = ReadyFut(Ok(60))
        /\ keyHist[request[c].params].value = 60
        /\ q # request[c].params
        /\ cached_values[q] # NoEntry /\ cached_values[q].response # 60

\* C36: of forwards for one key that are in flight together the one that
\* returns last leaves its value in the map.  When a forwarded call returns a
\* value while the entry of its key is fresh (stored by a forward that
\* returned while this one was in flight) or while another forward for the
\* key is still in flight, its value replaces the entry with age 0 and is what
\* a call dispatched now is served; dispatch order plays no part.
C36_LastCompletionWins ==
    [][\A c \in Calls :
         LET key == request[c].params
         IN  /\ ReturnStep(c) /\ fut[c].kind = "cached" /\ resp'[c].ok
             /\ \/ CacheFresh(cached_values, key)
                \/ \E d \in Calls \ {c} : pc[d] = "awaiting" /\ fut[d] = fut[c]
             => /\ cached_values'[key] = CacheEntry(resp'[c].val)
                /\ ResponseCacheCall(Request(RequestType, key), cached_values', InnerFut).fut
                      = ReadyFut(resp'[c])]_vars

\* A forward dispatched in an earlier tick is still in flight while another
\* forward for the same key has returned, in this tick, the value that is the
\* entry now: the value the first one returns will replace it.
C36_Witness ==
    \E c, d \in Calls :
        /\ c # d
        /\ pc[c] = "awaiting" /\ fut[c].kind = "cached" /\ c \notin issuedNow
        /\ pc[d] = "done" /\ resp[d].ok
        /\ cached_values[fut[c].key] = CacheEntry(resp[d].val)
        /\ \A q \in Params \ {fut[c].key} : cached_values[q] = NoEntry

\* C37: the age of an entry counts from the return of the forward that stored
\* it.  When a forwarded call returns a value the entry has age 0 however long
\* ago the call was dispatched; and a call dispatched less than one TTL after
\* that return is served the entry also when the forward had been dispatched
\* in an earlier tick than it returned, so that a TTL or more has passed since
\* its dispatch.
C37_AgeFromCompletion ==
    [][\A c \in Calls :
         /\ ReturnStep(c) /\ fut[c].kind = "cached" /\ resp'[c].ok
               => cached_values'[fut[c].key] = [response |-> resp'[c].val, at |-> 0]
         /\ CallStep(c) /\ IsTarget(c) /\ wire[request[c].params]
                        /\ cached_values[request[c].params].at < layers.max_cache_age
               => /\ forwarded'[c] = 0
                  /\ fut'[c] = ReadyFut(Ok(cached_values[request[c].params].response))]_vars

\* A call is served an entry stored one tick less than a TTL ago by a forward
\* that had been dispatched at least one tick before it returned.
C37_Witness ==
    \E c \in Calls :
        /\ pc[c] = "dispatched" /\ IsTarget(c)
        /\ forwarded[c] = 0 /\ fut[c].kind = "ready"
        /\ wire[request[c].params]
        /\ cached_values[request[c].params].at = layers.max_cache_age - 1

C39_StatusIgnored ==
    Parsed /\ input.ok
        => /\ output = ParseResponseFuturePoll([input EXCEPT !.status = 200])
           /\ input.body.shape = "object" /\ input.body.has_result /\ ~input.body.error
                 => output = Ok(input.body.result)

\* A response with status 429 whose body has the result 50 and no error was
\* parsed into the value 50.
C39_Witness ==
    /\ Parsed /\ input.ok
    /\ input.status = TooManyRequests
    /\ input.body.has_result /\ input.body.result = 50 /\ ~input.body.error
    /\ ~input.body.error_other
    /\ output = Ok(50)

====
